---------------------------- MODULE Spec2Model ----------------------------
(***************************************************************************)
(* A model of kevlox, a bytecode compiler and virtual machine for Lox.     *)
(*                                                                         *)
(*   - the hash table of kevlox/table.c (globals and the intern pool),     *)
(*   - the single-pass compiler of clox/compiler.c,                        *)
(*   - the interpreter loop of clox/vm.c, extended by the instructions the *)
(*     compiler emits and that file does not execute (those follow the     *)
(*     instruction table of the specification),                            *)
(*   - the collector of kevlox/memory.c.                                   *)
(*                                                                         *)
(* C functions that change the global parser / compiler / VM state are     *)
(* operators from a state record to a state record; a function that also   *)
(* returns a value leaves it in the field "ret".                           *)
(***************************************************************************)
EXTENDS Naturals, Integers, Sequences, FiniteSets, TLC

(***************************************************************************)
(* Bounds of the model (not program constants).                            *)
(***************************************************************************)
MaxFrags == 2
MaxSteps == 120
MaxPrefix == 2
MaxBody == 12
MaxOver == 2
MaxCollections == 2
MaxOps == 2
MaxCapacity == 32
MaxStack == 3
MaxAdds == 3
MaxChars == 3
MaxCaptures == 2
Literals == {49, 50, 51}

(***************************************************************************)
(* Program constants.                                                      *)
(***************************************************************************)
UINT8_MAX == 255
UINT8_COUNT == 256
UINT16_MAX == 65535
FRAMES_MAX == 64

(***************************************************************************)
(* Values (unnamed/part_001: tagged union).  The payload of a bool is the  *)
(* C bool 0/1, of an object its reference (index in the heap).             *)
(***************************************************************************)
NIL_VAL == [t |-> "nil", v |-> 0]
BOOL_VAL(b) == [t |-> "bool", v |-> IF b THEN 1 ELSE 0]
NUMBER_VAL(n) == [t |-> "num", v |-> n]
OBJ_VAL(o) == [t |-> "obj", v |-> o]
IS_BOOL(x) == x.t = "bool"
IS_NIL(x) == x.t = "nil"
IS_NUMBER(x) == x.t = "num"
IS_OBJ(x) == x.t = "obj"
AS_BOOL(x) == x.v /= 0
AS_NUMBER(x) == x.v

\* A double as a fraction n/d in lowest terms with d > 0.  Zero is 0/1 and
\* the negative zero 0/-1; d = 0 stands for the infinities (n = 1, n = -1)
\* and for NaN (n = 0).  Finite results are kept exact: the rounding and the
\* overflow of the 64-bit format are not represented.
Whole(k) == [n |-> k, d |-> 1]

\* the C operator op on the doubles a and b ("neg" is the unary minus on a)
DoubleOp(op, a, b) ==
    LET Abs(k) == IF k < 0 THEN -k ELSE k
        RECURSIVE Gcd(_, _)
        Gcd(x, y) == IF y = 0 THEN x ELSE Gcd(y, x % y)
        NaN == [n |-> 0, d |-> 0]
        Inf(sign) == [n |-> sign, d |-> 0]
        Zero(sign) == [n |-> 0, d |-> sign]
        IsNaN(x) == x.n = 0 /\ x.d = 0
        IsInf(x) == x.n /= 0 /\ x.d = 0
        IsZero(x) == x.n = 0 /\ x.d /= 0
        Sgn(x) == IF x.n < 0 \/ (x.n = 0 /\ x.d < 0) THEN -1 ELSE 1
        Ratio(p, q) == LET g == Gcd(Abs(p), q) IN [n |-> p \div g, d |-> q \div g]
        Neg(x) == IF IsNaN(x) THEN x
                  ELSE IF IsZero(x) THEN Zero(-x.d)
                  ELSE [n |-> -x.n, d |-> x.d]
        Add(x, y) ==
            IF IsNaN(x) \/ IsNaN(y) THEN NaN
            ELSE IF IsInf(x) THEN (IF IsInf(y) /\ y.n /= x.n THEN NaN ELSE x)
            ELSE IF IsInf(y) THEN y
            ELSE IF IsZero(x) /\ IsZero(y)
                 THEN Zero(IF x.d < 0 /\ y.d < 0 THEN -1 ELSE 1)
            ELSE IF IsZero(x) THEN y
            ELSE IF IsZero(y) THEN x
            ELSE LET p == x.n * y.d + y.n * x.d
                 IN  IF p = 0 THEN Zero(1) ELSE Ratio(p, x.d * y.d)
        Mul(x, y) ==
            IF IsNaN(x) \/ IsNaN(y) THEN NaN
            ELSE IF (IsInf(x) /\ IsZero(y)) \/ (IsZero(x) /\ IsInf(y)) THEN NaN
            ELSE IF IsInf(x) \/ IsInf(y) THEN Inf(Sgn(x) * Sgn(y))
            ELSE IF IsZero(x) \/ IsZero(y) THEN Zero(Sgn(x) * Sgn(y))
            ELSE Ratio(x.n * y.n, x.d * y.d)
        Div(x, y) ==
            IF IsNaN(x) \/ IsNaN(y) THEN NaN
            ELSE IF (IsInf(x) /\ IsInf(y)) \/ (IsZero(x) /\ IsZero(y)) THEN NaN
            ELSE IF IsInf(x) \/ IsZero(y) THEN Inf(Sgn(x) * Sgn(y))
            ELSE IF IsZero(x) \/ IsInf(y) THEN Zero(Sgn(x) * Sgn(y))
            ELSE Ratio(Sgn(y) * x.n * y.d, x.d * Abs(y.n))
        Less(x, y) ==
            IF IsNaN(x) \/ IsNaN(y) THEN FALSE
            ELSE IF IsInf(x) THEN x.n < 0 /\ ~(IsInf(y) /\ y.n < 0)
            ELSE IF IsInf(y) THEN y.n > 0
            ELSE x.n * Abs(y.d) < y.n * Abs(x.d)
    IN  CASE op = "+" -> Add(a, b)
          [] op = "-" -> Add(a, Neg(b))
          [] op = "*" -> Mul(a, b)
          [] op = "/" -> Div(a, b)
          [] op = "neg" -> Neg(a)
          [] op = "<" -> Less(a, b)
          [] op = ">" -> Less(b, a)
          [] op = "==" -> ~IsNaN(a) /\ ~IsNaN(b) /\ (a = b \/ (IsZero(a) /\ IsZero(b)))
AS_OBJ(x) == x.v

\* The statements of a C function run in order: With([x \in {e} |-> body])
\* is body with x the value of e, e evaluated once and before body
With(f) == f[CHOOSE x \in DOMAIN f : TRUE]

Last(q) == q[Len(q)]
Front(q) == SubSeq(q, 1, Len(q) - 1)

(***************************************************************************)
(* hashString: FNV-1a over the bytes, 32 bit.  A hash is kept as two       *)
(* 16-bit limbs [hi, lo] (value hi * 65536 + lo) so that the 32-bit        *)
(* products stay in range.                                                 *)
(***************************************************************************)
XorBit(a, b, k) == (((a \div (2 ^ k)) % 2) + ((b \div (2 ^ k)) % 2)) % 2

\* a ^ b for a byte b: the low eight bits differ, the rest are those of a
Xor(a, b) ==
    (a \div 256) * 256
    + XorBit(a, b, 0) + 2 * XorBit(a, b, 1) + 4 * XorBit(a, b, 2)
    + 8 * XorBit(a, b, 3) + 16 * XorBit(a, b, 4) + 32 * XorBit(a, b, 5)
    + 64 * XorBit(a, b, 6) + 128 * XorBit(a, b, 7)

\* hash *= 16777619 (= 2^24 + 403), modulo 2^32
FnvMul(h) ==
    LET p == h.lo * 403
    IN  [lo |-> p % 65536,
         hi |-> (h.hi * 403 + (h.lo % 256) * 256 + p \div 65536) % 65536]

RECURSIVE FnvFold(_, _, _)
FnvFold(h, chars, i) ==
    IF i > Len(chars) THEN h
    ELSE FnvFold(FnvMul([hi |-> h.hi, lo |-> Xor(h.lo, chars[i])]), chars, i + 1)

\* 2166136261 = 33052 * 65536 + 40389
hashString(chars) == FnvFold([hi |-> 33052, lo |-> 40389], chars, 1)

\* hash % capacity, on the limbs
HashMod(h, capacity) ==
    ((h.hi % capacity) * (65536 % capacity) + h.lo) % capacity

(***************************************************************************)
(* The hash table (kevlox/table.c).  A table is [count, capacity,          *)
(* entries]; entries is the array, entry i of C at position i + 1; a NULL  *)
(* key is 0.  The heap is passed where a key's hash or bytes are read.     *)
(***************************************************************************)
EmptyEntry == [key |-> 0, value |-> NIL_VAL]
initTable == [count |-> 0, capacity |-> 0, entries |-> << >>]

GROW_CAPACITY(capacity) == IF capacity < 8 THEN 8 ELSE capacity * 2

GC_HEAP_GROW_FACTOR == 2

\* The probe loop of findEntry; n counts the slots visited.  The C loop has
\* no exit when no slot is empty or holds the key: the result 0 stands for
\* that non-terminating probe.
RECURSIVE findEntryLoop(_, _, _, _, _, _)
findEntryLoop(entries, capacity, key, index, tombstone, n) ==
    IF n >= capacity THEN 0
    ELSE LET entry == entries[index + 1]
         IN  IF entry.key = 0
             THEN IF IS_NIL(entry.value)
                  THEN (IF tombstone /= 0 THEN tombstone ELSE index + 1)
                  ELSE findEntryLoop(entries, capacity, key, (index + 1) % capacity,
                                     IF tombstone = 0 THEN index + 1 ELSE tombstone,
                                     n + 1)
             ELSE IF entry.key = key
                  THEN index + 1
                  ELSE findEntryLoop(entries, capacity, key, (index + 1) % capacity,
                                     tombstone, n + 1)

\* Position (1-based) of the entry for key
findEntry(heap, entries, capacity, key) ==
    findEntryLoop(entries, capacity, key, HashMod(heap[key].hash, capacity), 0, 0)

RECURSIVE rehashLoop(_, _, _, _, _, _)
rehashLoop(heap, old, entries, capacity, i, count) ==
    IF i > Len(old) THEN [entries |-> entries, count |-> count]
    ELSE IF old[i].key = 0
         THEN rehashLoop(heap, old, entries, capacity, i + 1, count)
         ELSE LET dest == findEntry(heap, entries, capacity, old[i].key)
              IN  rehashLoop(heap, old,
                             [entries EXCEPT ![dest] =
                                 [key |-> old[i].key, value |-> entries[1].value]],
                             capacity, i + 1, count + 1)

adjustCapacity(heap, table, capacity) ==
    With([r \in {rehashLoop(heap, table.entries, [i \in 1..capacity |-> EmptyEntry],
                            capacity, 1, table.count)} |->
        [count |-> r.count, capacity |-> capacity, entries |-> r.entries]])

\* tableSet from findEntry on (table.c:80-88), on the table t1 that the
\* growth test has left: ret is isNewKey
tableSetEntry(heap, t1, key, value) ==
    With([e \in {findEntry(heap, t1.entries, t1.capacity, key)} |->
        LET isNewKey == t1.entries[e].key = 0
        IN  [table |-> [t1 EXCEPT !.count = IF isNewKey /\ IS_NIL(t1.entries[e].value)
                                             THEN @ + 1 ELSE @,
                                  !.entries[e] = [key |-> key, value |-> value]],
             ret |-> isNewKey]])

\* tableSet when the table is grown only once it is full
\* (table->count + 1 > table->capacity)
tableSetLateGrowth(heap, table, key, value) ==
    tableSetEntry(heap,
                  IF table.count + 1 > table.capacity
                  THEN adjustCapacity(heap, table, GROW_CAPACITY(table.capacity))
                  ELSE table,
                  key, value)

\* tableSet: ret is isNewKey
tableSet(heap, table, key, value) ==
    tableSetEntry(heap,
                  IF 4 * (table.count + 1) > 3 * table.capacity
                  THEN adjustCapacity(heap, table, GROW_CAPACITY(table.capacity))
                  ELSE table,
                  key, value)

\* tableDelete that reports the deletion and leaves the entry in place
tableDeleteKeepingKey(heap, table, key) ==
    [table |-> table, ret |-> table.count /= 0]

\* tableDelete that leaves the slot empty instead of a tombstone
\* (entry->value = NIL_VAL)
tableDeleteEmptying(heap, table, key) ==
    IF table.count = 0 THEN [table |-> table, ret |-> FALSE]
    ELSE With([e \in {findEntry(heap, table.entries, table.capacity, key)} |->
            IF table.entries[e].key = 0 THEN [table |-> table, ret |-> FALSE]
            ELSE [table |-> [table EXCEPT !.entries[e] = EmptyEntry],
                  ret |-> TRUE]])

tableDelete(heap, table, key) ==
    IF table.count = 0 THEN [table |-> table, ret |-> FALSE]
    ELSE With([e \in {findEntry(heap, table.entries, table.capacity, key)} |->
            IF table.entries[e].key = 0 THEN [table |-> table, ret |-> FALSE]
            ELSE [table |-> [table EXCEPT !.entries[e] =
                                [key |-> 0, value |-> BOOL_VAL(TRUE)]],
                  ret |-> TRUE]])

\* tableGet: found tells the result, value is *value
tableGet(heap, table, key) ==
    IF table.count = 0 THEN [found |-> FALSE, value |-> NIL_VAL]
    ELSE With([e \in {findEntry(heap, table.entries, table.capacity, key)} |->
            IF table.entries[e].key = 0 THEN [found |-> FALSE, value |-> NIL_VAL]
            ELSE [found |-> TRUE, value |-> table.entries[e].value]])

RECURSIVE findStringLoop(_, _, _, _, _, _)
findStringLoop(heap, table, chars, hash, index, n) ==
    IF n >= table.capacity THEN 0
    ELSE LET entry == table.entries[index + 1]
         IN  IF entry.key = 0
             THEN IF IS_NIL(entry.value) THEN 0
                  ELSE findStringLoop(heap, table, chars, hash,
                                      (index + 1) % table.capacity, n + 1)
             ELSE IF /\ Len(heap[entry.key].chars) = Len(chars)
                     /\ heap[entry.key].hash = hash
                     /\ heap[entry.key].chars = chars
                  THEN entry.key
                  ELSE findStringLoop(heap, table, chars, hash,
                                      (index + 1) % table.capacity, n + 1)

\* tableFindString when the test of the bytes is inverted
\* (memcmp(...) != 0)
RECURSIVE findStringLoopInverted(_, _, _, _, _, _)
findStringLoopInverted(heap, table, chars, hash, index, n) ==
    IF n >= table.capacity THEN 0
    ELSE LET entry == table.entries[index + 1]
         IN  IF entry.key = 0
             THEN IF IS_NIL(entry.value) THEN 0
                  ELSE findStringLoopInverted(heap, table, chars, hash,
                                              (index + 1) % table.capacity, n + 1)
             ELSE IF /\ Len(heap[entry.key].chars) = Len(chars)
                     /\ heap[entry.key].hash = hash
                     /\ heap[entry.key].chars /= chars
                  THEN entry.key
                  ELSE findStringLoopInverted(heap, table, chars, hash,
                                              (index + 1) % table.capacity, n + 1)

tableFindStringInverted(heap, table, chars, hash) ==
    IF table.count = 0 THEN 0
    ELSE findStringLoopInverted(heap, table, chars, hash,
                                HashMod(hash, table.capacity), 0)

\* tableFindString: the interned string with these bytes, or 0 (NULL)
tableFindString(heap, table, chars, hash) ==
    IF table.count = 0 THEN 0
    ELSE findStringLoop(heap, table, chars, hash, HashMod(hash, table.capacity), 0)

(***************************************************************************)
(* Opcodes (clox/chunk.h, enum OpCode) and precedence levels               *)
(* (clox/compiler.c, enum Precedence): the values the C enums give.        *)
(***************************************************************************)
OP_CONSTANT == 0
OP_NIL == 1
OP_TRUE == 2
OP_FALSE == 3
OP_POP == 4
OP_GET_LOCAL == 5
OP_SET_LOCAL == 6
OP_GET_GLOBAL == 7
OP_DEFINE_GLOBAL == 8
OP_SET_GLOBAL == 9
OP_GET_UPVALUE == 10
OP_SET_UPVALUE == 11
OP_EQUAL == 12
OP_GREATER == 13
OP_LESS == 14
OP_ADD == 15
OP_SUBTRACT == 16
OP_MULTIPLY == 17
OP_DIVIDE == 18
OP_NOT == 19
OP_NEGATE == 20
OP_PRINT == 21
OP_JUMP == 22
OP_JUMP_IF_FALSE == 23
OP_LOOP == 24
OP_CALL == 25
OP_CLOSURE == 26
OP_CLOSE_UPVALUE == 27
OP_RETURN == 28

PREC_NONE == 0
PREC_ASSIGNMENT == 1
PREC_OR == 2
PREC_AND == 3
PREC_EQUALITY == 4
PREC_COMPARISON == 5
PREC_TERM == 6
PREC_FACTOR == 7
PREC_UNARY == 8
PREC_CALL == 9
PREC_PRIMARY == 10

(***************************************************************************)
(* Heap objects.  The heap is a sequence; an object's reference is its     *)
(* position.  newFunction and copyString are in object.c.                  *)
(***************************************************************************)
initChunk == [code |-> << >>, lines |-> << >>, constants |-> << >>]

newFunction(s) ==
    [s EXCEPT !.heap = Append(@, [type |-> "OBJ_FUNCTION", arity |-> 0,
                                  upvalueCount |-> 0, chunk |-> initChunk,
                                  name |-> 0]),
              !.ret = Len(s.heap) + 1]

\* copyString: the interned string with these bytes, allocated and entered
\* in vm.strings when the probe does not find it
copyString(s, chars) ==
    With([hash \in {hashString(chars)} |->
      With([interned \in {tableFindString(s.heap, s.strings, chars, hash)} |->
        IF interned /= 0 THEN [s EXCEPT !.ret = interned]
        ELSE With([heap1 \in {Append(s.heap, [type |-> "OBJ_STRING", chars |-> chars,
                                              hash |-> hash])} |->
               [s EXCEPT !.heap = heap1,
                         !.strings = tableSet(heap1, s.strings, Len(heap1), NIL_VAL).table,
                         !.ret = Len(heap1)]])])])

(***************************************************************************)
(* Scanner interface: the token stream.  A token is [type, lex, line];     *)
(* lex is the lexeme's bytes.  After the last token the scanner yields     *)
(* TOKEN_EOF.                                                              *)
(***************************************************************************)
Tok(type, lex, line) == [type |-> type, lex |-> lex, line |-> line]
ZeroToken == Tok("TOKEN_LEFT_PAREN", << >>, 0)

scanToken(s) ==
    IF s.pos < Len(s.toks)
    THEN [s EXCEPT !.pos = @ + 1, !.ret = s.toks[s.pos + 1], !.scans = @ + 1]
    ELSE [s EXCEPT !.ret = Tok("TOKEN_EOF", << >>,
                                IF s.toks = << >> THEN 1 ELSE Last(s.toks).line),
                   !.scans = @ + 1]

(***************************************************************************)
(* clox/compiler.c: parser                                                 *)
(***************************************************************************)
\* errorAt that reports in panic mode too
errorAtInPanic(s, token, message) ==
    With([s1 \in {[s EXCEPT !.parser.panicMode = TRUE,
                            !.stderr = Append(@, [line |-> token.line,
                                                  message |-> message]),
                            !.parser.hadError = TRUE]} |->
        [s1 EXCEPT !.events = Append(@, [kind |-> "errorAt",
                                         panicMode |-> s.parser.panicMode,
                                         reported |-> Len(s1.stderr) > Len(s.stderr),
                                         hadError |-> s1.parser.hadError])]])

\* Every call of errorAt is entered in s.events with the panicMode it found,
\* whether it reported a diagnostic, and hadError after it.
errorAt(s, token, message) ==
    With([s1 \in {IF s.parser.panicMode THEN s
                  ELSE [s EXCEPT !.parser.panicMode = TRUE,
                                 !.stderr = Append(@, [line |-> token.line,
                                                       message |-> message]),
                                 !.parser.hadError = TRUE]} |->
        [s1 EXCEPT !.events = Append(@, [kind |-> "errorAt",
                                         panicMode |-> s.parser.panicMode,
                                         reported |-> Len(s1.stderr) > Len(s.stderr),
                                         hadError |-> s1.parser.hadError])]])

error(s, message) == errorAt(s, s.parser.previous, message)

errorAtCurrent(s, message) == errorAt(s, s.parser.current, message)

RECURSIVE advanceLoop(_)
advanceLoop(s) ==
    With([s1 \in {scanToken(s)} |->
      IF s1.ret.type /= "TOKEN_ERROR" THEN [s1 EXCEPT !.parser.current = s1.ret]
      ELSE advanceLoop(errorAtCurrent([s1 EXCEPT !.parser.current = s1.ret],
                                      s1.ret.lex))])

advance(s) == advanceLoop([s EXCEPT !.parser.previous = s.parser.current])

consume(s, type, message) ==
    IF s.parser.current.type = type THEN advance(s)
    ELSE errorAtCurrent(s, message)

check(s, type) == s.parser.current.type = type

match(s, type) ==
    IF ~check(s, type) THEN [s EXCEPT !.ret = FALSE]
    ELSE [advance(s) EXCEPT !.ret = TRUE]

(***************************************************************************)
(* clox/compiler.c: emit.  current is the innermost compiler, the last of  *)
(* s.comps; its enclosing compiler is the one before it.                   *)
(***************************************************************************)
current(s) == Last(s.comps)
currentChunk(s) == s.heap[current(s).function].chunk

writeChunk(s, byte, line) ==
    [s EXCEPT !.heap[current(s).function].chunk.code = Append(@, byte),
              !.heap[current(s).function].chunk.lines = Append(@, line)]

\* addConstant: ret is the index of the appended value
addConstant(s, value) ==
    [s EXCEPT !.heap[current(s).function].chunk.constants = Append(@, value),
              !.ret = Len(currentChunk(s).constants)]

emitByte(s, byte) == writeChunk(s, byte, s.parser.previous.line)

emitBytes(s, byte1, byte2) == emitByte(emitByte(s, byte1), byte2)

\* emitLoop when the two bytes of the operand are not counted
emitLoopFromOpcode(s, loopStart) ==
    With([s1 \in {emitByte(s, OP_LOOP)} |->
      LET offset == Len(currentChunk(s1).code) - loopStart
      IN  emitByte(emitByte(IF offset > UINT16_MAX
                            THEN error(s1, "Loop body too large.") ELSE s1,
                            (offset \div 256) % 256),
                   offset % 256)])

emitLoop(s, loopStart) ==
    With([s1 \in {emitByte(s, OP_LOOP)} |->
      LET offset == Len(currentChunk(s1).code) - loopStart + 2
      IN  emitByte(emitByte(IF offset > UINT16_MAX
                            THEN error(s1, "Loop body too large.") ELSE s1,
                            (offset \div 256) % 256),
                   offset % 256)])

emitJump(s, instruction) ==
    With([s1 \in {emitByte(emitByte(emitByte(s, instruction), 255), 255)} |->
      [s1 EXCEPT !.ret = Len(currentChunk(s1).code) - 2]])

emitReturn(s) == emitByte(emitByte(s, OP_NIL), OP_RETURN)

makeConstant(s, value) ==
    With([s1 \in {addConstant(s, value)} |->
      With([s2 \in {IF s1.ret > UINT8_MAX
                    THEN [error(s1, "Too many constants in one chunk") EXCEPT !.ret = 0]
                    ELSE s1} |->
        [s2 EXCEPT !.pool = Append(@, [function |-> current(s).function,
                                       count |-> Len(currentChunk(s1).constants),
                                       operand |-> s2.ret])]])])

emitConstant(s, value) ==
    With([s1 \in {makeConstant(s, value)} |-> emitBytes(s1, OP_CONSTANT, s1.ret)])

\* The 16-bit operand backpatchJump writes for a jump of this length
JumpOperand(jump) == << (jump \div 256) % 256, jump % 256 >>

\* backpatchJump when the two bytes of the operand are not subtracted
backpatchJumpFromOperand(s, offset) ==
    LET jump == Len(currentChunk(s).code) - offset
        s1 == IF jump > UINT16_MAX THEN error(s, "Jump limit UINT16_MAX exceeded") ELSE s
        f == current(s).function
    IN  [s1 EXCEPT !.heap[f].chunk.code[offset + 1] = JumpOperand(jump)[1],
                   !.heap[f].chunk.code[offset + 2] = JumpOperand(jump)[2],
                   !.patches = Append(@, [function |-> f, offset |-> offset,
                                          target |-> Len(currentChunk(s).code)])]

backpatchJump(s, offset) ==
    LET jump == Len(currentChunk(s).code) - offset - 2
        s1 == IF jump > UINT16_MAX THEN error(s, "Jump limit UINT16_MAX exceeded") ELSE s
        f == current(s).function
    IN  [s1 EXCEPT !.heap[f].chunk.code[offset + 1] = JumpOperand(jump)[1],
                   !.heap[f].chunk.code[offset + 2] = JumpOperand(jump)[2],
                   !.patches = Append(@, [function |-> f, offset |-> offset,
                                          target |-> Len(currentChunk(s).code)])]

(***************************************************************************)
(* clox/compiler.c: compiler helpers and scopes.  A Compiler is            *)
(* [function, type, locals, scopeDepth, upvalues]; localCount is           *)
(* Len(locals) and function->upvalueCount is Len(upvalues).  A local keeps *)
(* the bytes of its name token.                                            *)
(***************************************************************************)
Local(name, depth) == [name |-> name, depth |-> depth]

initCompiler(s, type) ==
    With([s1 \in {newFunction(s)} |->
      With([s2 \in {[s1 EXCEPT !.comps = Append(@, [function |-> s1.ret, type |-> type,
                                                     locals |-> << >>, scopeDepth |-> 0,
                                                     upvalues |-> << >>])]} |->
        With([s3 \in {IF type /= "TYPE_SCRIPT"
                      THEN With([n \in {copyString(s2, s2.parser.previous.lex)} |->
                             [n EXCEPT !.heap[current(s2).function].name = n.ret]])
                      ELSE s2} |->
          [s3 EXCEPT !.comps[Len(s3.comps)].locals = Append(@, Local(<< >>, 0))]])])])

\* endCompiler: ret is the function; the compiler record that ends is kept
\* in "ended" (function() reads its upvalues after endCompiler)
endCompiler(s) ==
    With([s1 \in {emitReturn(s)} |->
      [s1 EXCEPT !.ret = current(s1).function,
                 !.ended = current(s1),
                 !.comps = Front(@)]])

beginScope(s) == [s EXCEPT !.comps[Len(s.comps)].scopeDepth = @ + 1]

RECURSIVE endScopeLoop(_)
endScopeLoop(s) ==
    IF Len(current(s).locals) > 0 /\ Last(current(s).locals).depth > current(s).scopeDepth
    THEN With([s1 \in {emitByte(s, OP_POP)} |->
           endScopeLoop([s1 EXCEPT !.comps[Len(s1.comps)].locals = Front(@)])])
    ELSE s

endScope(s) ==
    With([s1 \in {endScopeLoop(s)} |->
      With([s2 \in {[s1 EXCEPT !.comps[Len(s1.comps)].scopeDepth = @ - 1]} |->
        [s2 EXCEPT !.scopes = Append(@,
            [function |-> current(s).function,
             depth |-> current(s).scopeDepth,
             before |-> current(s).locals,
             after |-> current(s2).locals,
             pops |-> Len(currentChunk(s2).code) - Len(currentChunk(s).code)])]])])

(***************************************************************************)
(* clox/compiler.c: variables                                              *)
(***************************************************************************)
identifierConstant(s, name) ==
    With([s1 \in {copyString(s, name.lex)} |-> makeConstant(s1, OBJ_VAL(s1.ret))])

\* a and b are the bytes (start, length) of the two tokens
identifiersEqual(a, b) ==
    IF Len(a) /= Len(b) THEN FALSE ELSE a = b

\* the loop of resolveLocal when a local that is not initialized is
\* accepted
RECURSIVE resolveLocalLoopUnchecked(_, _, _, _)
resolveLocalLoopUnchecked(s, c, name, i) ==
    IF i < 0 THEN [s EXCEPT !.ret = -1]
    ELSE LET local == s.comps[c].locals[i + 1]
         IN  IF identifiersEqual(name.lex, local.name)
             THEN [s EXCEPT !.ret = i]
             ELSE resolveLocalLoopUnchecked(s, c, name, i - 1)

\* resolveLocal on compiler number c of s.comps: ret is the slot or -1
RECURSIVE resolveLocalLoop(_, _, _, _)
resolveLocalLoop(s, c, name, i) ==
    IF i < 0 THEN [s EXCEPT !.ret = -1]
    ELSE LET local == s.comps[c].locals[i + 1]
         IN  IF identifiersEqual(name.lex, local.name)
             THEN [(IF local.depth = -1
                    THEN error(s, "Can't read local variable in its own initializer")
                    ELSE s) EXCEPT !.ret = i]
             ELSE resolveLocalLoop(s, c, name, i - 1)

resolveLocal(s, c, name) ==
    resolveLocalLoop(s, c, name, Len(s.comps[c].locals) - 1)

\* the loop of addUpvalue from i on: the first index at which the array
\* holds this pair, -1 when the loop ends without one (256 iterations, as a
\* set, are within the checker's stack; as a recursion they are not)
addUpvalueLoop(upvalues, index, isLocal, i) ==
    LET same == {j \in i..(Len(upvalues) - 1) :
                    upvalues[j + 1].index = index /\ upvalues[j + 1].isLocal = isLocal}
    IN  IF same = {} THEN -1 ELSE CHOOSE j \in same : \A k \in same : j <= k

\* addUpvalue without the search for an upvalue that is already there
addUpvalueAlwaysNew(s, c, index, isLocal) ==
    LET upvalueCount == s.heap[s.comps[c].function].upvalueCount
    IN  IF upvalueCount = UINT8_COUNT
        THEN [error(s, "Too many closure variables in function.") EXCEPT !.ret = 0]
        ELSE [s EXCEPT !.comps[c].upvalues =
                          Append(@, [isLocal |-> isLocal, index |-> index]),
                       !.heap[s.comps[c].function].upvalueCount = @ + 1,
                       !.ret = upvalueCount]

addUpvalue(s, c, index, isLocal) ==
    LET upvalueCount == s.heap[s.comps[c].function].upvalueCount
        found == addUpvalueLoop(SubSeq(s.comps[c].upvalues, 1, upvalueCount),
                                index, isLocal, 0)
    IN  IF found /= -1 THEN [s EXCEPT !.ret = found]
        ELSE IF upvalueCount = UINT8_COUNT
             THEN [error(s, "Too many closure variables in function.") EXCEPT !.ret = 0]
             ELSE [s EXCEPT !.comps[c].upvalues =
                               Append(@, [isLocal |-> isLocal, index |-> index]),
                            !.heap[s.comps[c].function].upvalueCount = @ + 1,
                            !.ret = upvalueCount]

RECURSIVE resolveUpvalue(_, _, _)
\* resolveUpvalue when a local of the enclosing function is entered as an
\* upvalue of the enclosing function (isLocal false)
resolveUpvalueNotLocal(s, c, name) ==
    IF c = 1 THEN [s EXCEPT !.ret = -1]
    ELSE With([s1 \in {resolveLocal(s, c - 1, name)} |->
           IF s1.ret /= -1 THEN addUpvalue(s1, c, s1.ret % 256, FALSE)
           ELSE With([s2 \in {resolveUpvalue(s1, c - 1, name)} |->
                  IF s2.ret /= -1 THEN addUpvalue(s2, c, s2.ret % 256, FALSE)
                  ELSE [s2 EXCEPT !.ret = -1]])])

resolveUpvalue(s, c, name) ==
    IF c = 1 THEN [s EXCEPT !.ret = -1]
    ELSE With([s1 \in {resolveLocal(s, c - 1, name)} |->
           IF s1.ret /= -1 THEN addUpvalue(s1, c, s1.ret % 256, TRUE)
           ELSE With([s2 \in {resolveUpvalue(s1, c - 1, name)} |->
                  IF s2.ret /= -1 THEN addUpvalue(s2, c, s2.ret % 256, FALSE)
                  ELSE [s2 EXCEPT !.ret = -1]])])

addLocal(s, name) ==
    IF Len(current(s).locals) = UINT8_COUNT
    THEN error(s, "Too many local variables in function.")
    ELSE [s EXCEPT !.comps[Len(s.comps)].locals = Append(@, Local(name.lex, -1))]

RECURSIVE declareLoop(_, _, _)
declareLoop(s, name, i) ==
    IF i < 0 THEN s
    ELSE LET local == current(s).locals[i + 1]
         IN  IF local.depth /= -1 /\ local.depth < current(s).scopeDepth THEN s
             ELSE declareLoop(IF identifiersEqual(name.lex, local.name)
                              THEN error(s, "Already a variable with this name in this scope")
                              ELSE s,
                              name, i - 1)

declareVariable(s) ==
    IF current(s).scopeDepth = 0 THEN s
    ELSE With([s1 \in {declareLoop(s, s.parser.previous, Len(current(s).locals) - 1)} |->
           addLocal([s1 EXCEPT !.declared = Append(@,
                        [function |-> current(s).function,
                         name |-> s.parser.previous.lex,
                         depth |-> current(s).scopeDepth,
                         ended |-> Len(s.scopes),
                         slot |-> Len(current(s).locals),
                         rejected |-> Len(s1.events) > Len(s.events)])],
                    s.parser.previous)])

parseVariable(s, errorMessage) ==
    With([s1 \in {declareVariable(consume(s, "TOKEN_IDENTIFIER", errorMessage))} |->
      IF current(s1).scopeDepth > 0 THEN [s1 EXCEPT !.ret = 0]
      ELSE identifierConstant(s1, s1.parser.previous)])

markInitialized(s) ==
    IF current(s).scopeDepth = 0 THEN s
    ELSE [s EXCEPT !.comps[Len(s.comps)].locals[Len(current(s).locals)].depth =
                       current(s).scopeDepth]

defineVariable(s, global) ==
    IF current(s).scopeDepth > 0 THEN markInitialized(s)
    ELSE emitBytes(s, OP_DEFINE_GLOBAL, global)

(***************************************************************************)
(* clox/compiler.c: the parse table and the expression parsers             *)
(***************************************************************************)
Rule(prefix, infix, precedence) ==
    [prefix |-> prefix, infix |-> infix, precedence |-> precedence]

getRule(type) ==
    CASE type = "TOKEN_LEFT_PAREN" -> Rule("grouping", "call", PREC_CALL)
      [] type = "TOKEN_MINUS" -> Rule("unary", "binary", PREC_TERM)
      [] type = "TOKEN_PLUS" -> Rule("NULL", "binary", PREC_TERM)
      [] type = "TOKEN_SLASH" -> Rule("NULL", "binary", PREC_FACTOR)
      [] type = "TOKEN_STAR" -> Rule("NULL", "binary", PREC_FACTOR)
      [] type = "TOKEN_BANG" -> Rule("unary", "NULL", PREC_NONE)
      [] type = "TOKEN_BANG_EQUAL" -> Rule("NULL", "binary", PREC_EQUALITY)
      [] type = "TOKEN_EQUAL_EQUAL" -> Rule("NULL", "binary", PREC_EQUALITY)
      [] type = "TOKEN_GREATER" -> Rule("NULL", "binary", PREC_COMPARISON)
      [] type = "TOKEN_GREATER_EQUAL" -> Rule("NULL", "binary", PREC_COMPARISON)
      [] type = "TOKEN_LESS" -> Rule("NULL", "binary", PREC_COMPARISON)
      [] type = "TOKEN_LESS_EQUAL" -> Rule("NULL", "binary", PREC_COMPARISON)
      [] type = "TOKEN_IDENTIFIER" -> Rule("variable", "NULL", PREC_NONE)
      [] type = "TOKEN_STRING" -> Rule("string", "NULL", PREC_NONE)
      [] type = "TOKEN_NUMBER" -> Rule("number", "NULL", PREC_NONE)
      [] type = "TOKEN_AND" -> Rule("NULL", "and_", PREC_AND)
      [] type = "TOKEN_FALSE" -> Rule("literal", "NULL", PREC_NONE)
      [] type = "TOKEN_NIL" -> Rule("literal", "NULL", PREC_NONE)
      [] type = "TOKEN_OR" -> Rule("NULL", "or_", PREC_OR)
      [] type = "TOKEN_TRUE" -> Rule("literal", "NULL", PREC_NONE)
      [] OTHER -> Rule("NULL", "NULL", PREC_NONE)

\* strtod on the digits of a number token
RECURSIVE strtod(_, _, _)
strtod(lex, i, acc) ==
    IF i > Len(lex) \/ lex[i] < 48 \/ lex[i] > 57 THEN Whole(acc)
    ELSE strtod(lex, i + 1, acc * 10 + (lex[i] - 48))

RECURSIVE parsePrecedence(_, _), infixLoop(_, _, _), expression(_)
RECURSIVE binary(_, _), call(_, _), grouping(_, _), or_(_, _), and_(_, _)
RECURSIVE namedVariable(_, _, _), variable(_, _), unary(_, _)
RECURSIVE argumentList(_), argumentLoop(_, _)

\* binary when the right operand is parsed at the operator's own precedence
binaryRightAssociative(s, canAssign) ==
    LET operatorType == s.parser.previous.type
        rule == getRule(operatorType)
    IN  With([s1 \in {parsePrecedence(s, rule.precedence)} |->
          CASE operatorType = "TOKEN_PLUS" -> emitByte(s1, OP_ADD)
            [] operatorType = "TOKEN_MINUS" -> emitByte(s1, OP_SUBTRACT)
            [] operatorType = "TOKEN_STAR" -> emitByte(s1, OP_MULTIPLY)
            [] operatorType = "TOKEN_SLASH" -> emitByte(s1, OP_DIVIDE)
            [] operatorType = "TOKEN_EQUAL_EQUAL" -> emitByte(s1, OP_EQUAL)
            [] operatorType = "TOKEN_LESS" -> emitByte(s1, OP_LESS)
            [] operatorType = "TOKEN_GREATER" -> emitByte(s1, OP_GREATER)
            [] OTHER -> s1])

binary(s, canAssign) ==
    LET operatorType == s.parser.previous.type
        rule == getRule(operatorType)
    IN  With([s1 \in {parsePrecedence(s, rule.precedence + 1)} |->
          CASE operatorType = "TOKEN_BANG_EQUAL" -> emitBytes(s1, OP_EQUAL, OP_NOT)
            [] operatorType = "TOKEN_EQUAL_EQUAL" -> emitByte(s1, OP_EQUAL)
            [] operatorType = "TOKEN_GREATER" -> emitByte(s1, OP_GREATER)
            [] operatorType = "TOKEN_GREATER_EQUAL" -> emitBytes(s1, OP_LESS, OP_NOT)
            [] operatorType = "TOKEN_LESS" -> emitByte(s1, OP_LESS)
            [] operatorType = "TOKEN_LESS_EQUAL" -> emitBytes(s1, OP_GREATER, OP_NOT)
            [] operatorType = "TOKEN_PLUS" -> emitByte(s1, OP_ADD)
            [] operatorType = "TOKEN_MINUS" -> emitByte(s1, OP_SUBTRACT)
            [] operatorType = "TOKEN_STAR" -> emitByte(s1, OP_MULTIPLY)
            [] operatorType = "TOKEN_SLASH" -> emitByte(s1, OP_DIVIDE)
            [] OTHER -> s1])

call(s, canAssign) ==
    With([s1 \in {argumentList(s)} |-> emitBytes(s1, OP_CALL, s1.ret)])

literal(s, canAssign) ==
    CASE s.parser.previous.type = "TOKEN_FALSE" -> emitByte(s, OP_FALSE)
      [] s.parser.previous.type = "TOKEN_NIL" -> emitByte(s, OP_NIL)
      [] s.parser.previous.type = "TOKEN_TRUE" -> emitByte(s, OP_TRUE)
      [] OTHER -> s

grouping(s, canAssign) ==
    With([s1 \in {expression(s)} |->
      consume(s1, "TOKEN_RIGHT_PAREN", "Expected ')' after expression.")])

number(s, canAssign) ==
    emitConstant(s, NUMBER_VAL(strtod(s.parser.previous.lex, 1, 0)))

\* or_ when the jump over the right operand is the conditional one
orJumpingWhenFalse(s, canAssign) ==
    With([endJump \in {emitJump(s, OP_JUMP_IF_FALSE)} |->
      With([s1 \in {emitByte(endJump, OP_POP)} |->
        With([s2 \in {parsePrecedence(s1, PREC_OR)} |->
          [backpatchJump(s2, endJump.ret) EXCEPT !.logic = Append(@,
              [function |-> current(s).function, kind |-> "or",
               jump |-> endJump.ret, skip |-> -1,
               right |-> Len(currentChunk(s1).code),
               end |-> Len(currentChunk(s2).code)])]])])])

\* logic keeps, for every and/or compiled, where its code lies: jump (the
\* operand of the OP_JUMP_IF_FALSE behind the left operand), skip (the
\* operand of the OP_JUMP of or_, -1 for and_), right (the first byte of the
\* right operand's code) and end (the byte behind it)
or_(s, canAssign) ==
    With([elseJump \in {emitJump(s, OP_JUMP_IF_FALSE)} |->
      With([endJump \in {emitJump(elseJump, OP_JUMP)} |->
        With([s1 \in {emitByte(backpatchJump(endJump, elseJump.ret), OP_POP)} |->
          With([s2 \in {parsePrecedence(s1, PREC_OR)} |->
            [backpatchJump(s2, endJump.ret) EXCEPT !.logic = Append(@,
                [function |-> current(s).function, kind |-> "or",
                 jump |-> elseJump.ret, skip |-> endJump.ret,
                 right |-> Len(currentChunk(s1).code),
                 end |-> Len(currentChunk(s2).code)])]])])])])

string(s, canAssign) ==
    With([s1 \in {copyString(s, SubSeq(s.parser.previous.lex, 2,
                                       Len(s.parser.previous.lex) - 1))} |->
      emitConstant(s1, OBJ_VAL(s1.ret))])

\* namedVariable when the locals of the current function are not consulted
namedVariableSkippingLocals(s, name, canAssign) ==
    With([upvalue \in {resolveUpvalue(s, Len(s.comps), name)} |->
      With([s1 \in {IF upvalue.ret /= -1 THEN upvalue
                    ELSE identifierConstant(upvalue, name)} |->
       LET getOp == IF upvalue.ret /= -1 THEN OP_GET_UPVALUE ELSE OP_GET_GLOBAL
           setOp == IF upvalue.ret /= -1 THEN OP_SET_UPVALUE ELSE OP_SET_GLOBAL
           arg == s1.ret % 256
       IN  With([m \in {IF canAssign THEN match(s1, "TOKEN_EQUAL")
                        ELSE [s1 EXCEPT !.ret = FALSE]} |->
            With([s2 \in {IF m.ret THEN emitBytes(expression(m), setOp, arg)
                          ELSE emitBytes(m, getOp, arg)} |->
              [s2 EXCEPT !.resolved = Append(@,
                  [function |-> current(s).function, name |-> name.lex,
                   op |-> IF m.ret THEN setOp ELSE getOp, arg |-> arg,
                   at |-> Len(currentChunk(s2).code) - 2,
                   from |-> Len(currentChunk(s).code),
                   canAssign |-> canAssign, next |-> s1.parser.current.type,
                   ended |-> Len(s.scopes), declared |-> Len(s.declared),
                   comps |-> s.comps,
                   upvalues |-> current(s2).upvalues,
                   chain |-> [c \in 1..Len(s2.comps) |-> s2.comps[c].upvalues]])]])])])])

\* namedVariable when canAssign is not consulted
namedVariableAlwaysAssigns(s, name, canAssign) ==
    With([local \in {resolveLocal(s, Len(s.comps), name)} |->
     With([upvalue \in {IF local.ret /= -1 THEN local
                        ELSE resolveUpvalue(local, Len(s.comps), name)} |->
      With([s1 \in {IF upvalue.ret /= -1 THEN upvalue
                    ELSE identifierConstant(upvalue, name)} |->
       LET getOp == IF local.ret /= -1 THEN OP_GET_LOCAL
                    ELSE IF upvalue.ret /= -1 THEN OP_GET_UPVALUE ELSE OP_GET_GLOBAL
           setOp == IF local.ret /= -1 THEN OP_SET_LOCAL
                    ELSE IF upvalue.ret /= -1 THEN OP_SET_UPVALUE ELSE OP_SET_GLOBAL
           arg == s1.ret % 256
       IN  With([m \in {match(s1, "TOKEN_EQUAL")} |->
            With([s2 \in {IF m.ret THEN emitBytes(expression(m), setOp, arg)
                          ELSE emitBytes(m, getOp, arg)} |->
              [s2 EXCEPT !.resolved = Append(@,
                  [function |-> current(s).function, name |-> name.lex,
                   op |-> IF m.ret THEN setOp ELSE getOp, arg |-> arg,
                   at |-> Len(currentChunk(s2).code) - 2,
                   from |-> Len(currentChunk(s).code),
                   canAssign |-> canAssign, next |-> s1.parser.current.type,
                   ended |-> Len(s.scopes), declared |-> Len(s.declared),
                   comps |-> s.comps,
                   upvalues |-> current(s2).upvalues,
                   chain |-> [c \in 1..Len(s2.comps) |-> s2.comps[c].upvalues]])]])])])])])

namedVariable(s, name, canAssign) ==
    With([local \in {resolveLocal(s, Len(s.comps), name)} |->
     With([upvalue \in {IF local.ret /= -1 THEN local
                        ELSE resolveUpvalue(local, Len(s.comps), name)} |->
      With([s1 \in {IF upvalue.ret /= -1 THEN upvalue
                    ELSE identifierConstant(upvalue, name)} |->
       LET getOp == IF local.ret /= -1 THEN OP_GET_LOCAL
                    ELSE IF upvalue.ret /= -1 THEN OP_GET_UPVALUE ELSE OP_GET_GLOBAL
           setOp == IF local.ret /= -1 THEN OP_SET_LOCAL
                    ELSE IF upvalue.ret /= -1 THEN OP_SET_UPVALUE ELSE OP_SET_GLOBAL
           arg == s1.ret % 256
       IN  With([m \in {IF canAssign THEN match(s1, "TOKEN_EQUAL")
                        ELSE [s1 EXCEPT !.ret = FALSE]} |->
            With([s2 \in {IF m.ret THEN emitBytes(expression(m), setOp, arg)
                          ELSE emitBytes(m, getOp, arg)} |->
              [s2 EXCEPT !.resolved = Append(@,
                  [function |-> current(s).function, name |-> name.lex,
                   op |-> IF m.ret THEN setOp ELSE getOp, arg |-> arg,
                   at |-> Len(currentChunk(s2).code) - 2,
                   from |-> Len(currentChunk(s).code),
                   canAssign |-> canAssign, next |-> s1.parser.current.type,
                   ended |-> Len(s.scopes), declared |-> Len(s.declared),
                   comps |-> s.comps,
                   upvalues |-> current(s2).upvalues,
                   chain |-> [c \in 1..Len(s2.comps) |-> s2.comps[c].upvalues]])]])])])])])

variable(s, canAssign) == namedVariable(s, s.parser.previous, canAssign)

unary(s, canAssign) ==
    LET operatorType == s.parser.previous.type
    IN  With([s1 \in {parsePrecedence(s, PREC_UNARY)} |->
          CASE operatorType = "TOKEN_BANG" -> emitByte(s1, OP_NOT)
            [] operatorType = "TOKEN_MINUS" -> emitByte(s1, OP_NEGATE)
            [] OTHER -> s1])

\* prefixRule(canAssign) / infixRule(canAssign): the call through the
\* function pointer of the rule
callRule(s, fn, canAssign) ==
    CASE fn = "grouping" -> grouping(s, canAssign)
      [] fn = "call" -> call(s, canAssign)
      [] fn = "unary" -> unary(s, canAssign)
      [] fn = "binary" -> binary(s, canAssign)
      [] fn = "variable" -> variable(s, canAssign)
      [] fn = "string" -> string(s, canAssign)
      [] fn = "number" -> number(s, canAssign)
      [] fn = "and_" -> and_(s, canAssign)
      [] fn = "or_" -> or_(s, canAssign)
      [] fn = "literal" -> literal(s, canAssign)
      [] fn = "NULL" -> s

\* calls keeps, for every rule that parsePrecedence looks up, the token
\* (parser.previous), the function of the rule (fn), whether it went on to
\* call it (called) and the precedence parsePrecedence was called with; a
\* call of fn = NULL would be entered here before callRule is reached
Looked(s, kind, fn, called, precedence) ==
    [s EXCEPT !.calls = Append(@, [kind |-> kind, token |-> s.parser.previous.type,
                                   fn |-> fn, called |-> called,
                                   precedence |-> precedence,
                                   errors |-> Len(s.events)])]

infixLoop(s, precedence, canAssign) ==
    IF precedence <= getRule(s.parser.current.type).precedence
    THEN With([s1 \in {advance(s)} |->
          With([s2 \in {callRule(Looked(s1, "infix",
                                        getRule(s1.parser.previous.type).infix,
                                        TRUE, precedence),
                                 getRule(s1.parser.previous.type).infix,
                                 canAssign)} |->
            infixLoop(s2, precedence, canAssign)])])
    ELSE s

\* parsePrecedence that calls the prefix rule without looking at it
parsePrecedenceUnchecked(s, precedence) ==
    With([s1 \in {advance(s)} |->
      LET prefixRule == getRule(s1.parser.previous.type).prefix
          canAssign == precedence <= PREC_ASSIGNMENT
      IN  With([s2 \in {callRule(Looked(s1, "prefix", prefixRule, TRUE, precedence),
                                 prefixRule, canAssign)} |->
            With([s3 \in {infixLoop(s2, precedence, canAssign)} |->
              IF canAssign /\ check(s3, "TOKEN_EQUAL")
              THEN error(match(s3, "TOKEN_EQUAL"), "Invalid assignment target")
              ELSE [s3 EXCEPT !.ret = FALSE]])])])

\* parsePrecedence that looks at the rule of the current token and advances
\* only when it has a prefix function
parsePrecedenceAdvancingLate(s, precedence) ==
    LET canAssign == precedence <= PREC_ASSIGNMENT
    IN  IF getRule(s.parser.current.type).prefix = "NULL"
        THEN errorAtCurrent(s, "Expected expression11")
        ELSE With([s1 \in {advance(s)} |->
              With([s2 \in {callRule(Looked(s1, "prefix",
                                            getRule(s1.parser.previous.type).prefix,
                                            TRUE, precedence),
                                     getRule(s1.parser.previous.type).prefix,
                                     canAssign)} |->
                With([s3 \in {infixLoop(s2, precedence, canAssign)} |->
                  IF canAssign /\ check(s3, "TOKEN_EQUAL")
                  THEN error(match(s3, "TOKEN_EQUAL"), "Invalid assignment target")
                  ELSE [s3 EXCEPT !.ret = FALSE]])])])

parsePrecedence(s, precedence) ==
    With([s1 \in {advance(s)} |->
      LET prefixRule == getRule(s1.parser.previous.type).prefix
          canAssign == precedence <= PREC_ASSIGNMENT
      IN  IF prefixRule = "NULL"
          THEN error(Looked(s1, "prefix", prefixRule, FALSE, precedence),
                     "Expected expression11")
          ELSE With([s2 \in {callRule(Looked(s1, "prefix", prefixRule, TRUE,
                                             precedence),
                                      prefixRule, canAssign)} |->
                With([s3 \in {infixLoop(s2, precedence, canAssign)} |->
                  IF canAssign /\ check(s3, "TOKEN_EQUAL")
                  THEN error(match(s3, "TOKEN_EQUAL"), "Invalid assignment target")
                  ELSE [s3 EXCEPT !.ret = FALSE]])])])

argumentLoop(s, argCount) ==
    With([s1 \in {expression(s)} |->
      With([m \in {match(IF argCount = 255
                         THEN error(s1, "Can't have more than 255 arguments.")
                         ELSE s1,
                         "TOKEN_COMMA")} |->
        IF m.ret THEN argumentLoop(m, (argCount + 1) % 256)
        ELSE [m EXCEPT !.ret = (argCount + 1) % 256]])])

argumentList(s) ==
    With([s1 \in {IF ~check(s, "TOKEN_RIGHT_PAREN") THEN argumentLoop(s, 0)
                  ELSE [s EXCEPT !.ret = 0]} |->
      [consume(s1, "TOKEN_RIGHT_PAREN", "Expected ')' after arguments.")
          EXCEPT !.ret = s1.ret]])

and_(s, canAssign) ==
    With([endJump \in {emitJump(s, OP_JUMP_IF_FALSE)} |->
      With([s1 \in {parsePrecedence(emitByte(endJump, OP_POP), PREC_AND)} |->
        [backpatchJump(s1, endJump.ret) EXCEPT !.logic = Append(@,
            [function |-> current(s).function, kind |-> "and",
             jump |-> endJump.ret, skip |-> -1,
             right |-> endJump.ret + 3,
             end |-> Len(currentChunk(s1).code)])]])])

expression(s) == parsePrecedence(s, PREC_ASSIGNMENT)

(***************************************************************************)
(* clox/compiler.c: statements and declarations                            *)
(***************************************************************************)
RECURSIVE statement(_), declaration(_), block(_), blockLoop(_)
RECURSIVE function(_, _), parameterLoop(_), forStatement(_), ifStatement(_)
RECURSIVE whileStatement(_), funDeclaration(_), compileLoop(_, _)

expressionStatement(s) ==
    With([s1 \in {expression(s)} |->
      emitByte(consume(s1, "TOKEN_SEMICOLON", "Expected ';' after value."), OP_POP)])

varDeclaration(s) ==
    With([global \in {parseVariable(s, "Expected variable name")} |->
      With([s1 \in {IF check(global, "TOKEN_EQUAL")
                    THEN expression(match(global, "TOKEN_EQUAL"))
                    ELSE emitByte(global, OP_NIL)} |->
        defineVariable(consume(s1, "TOKEN_SEMICOLON",
                               "Expected ';' after variable declaration"),
                       global.ret)])])

forInitializer(s) ==
    CASE check(s, "TOKEN_SEMICOLON") -> match(s, "TOKEN_SEMICOLON")
      [] check(s, "TOKEN_VAR") -> varDeclaration(match(s, "TOKEN_VAR"))
      [] OTHER -> expressionStatement(s)

\* the condition clause when the condition is left on the stack of the
\* continue path
forConditionKept(s) ==
    IF check(s, "TOKEN_SEMICOLON")
    THEN [match(s, "TOKEN_SEMICOLON") EXCEPT !.ret = -1]
    ELSE With([s1 \in {expression(s)} |->
          emitJump(consume(s1, "TOKEN_SEMICOLON", "Expected ';' in for loop condition."),
                   OP_JUMP_IF_FALSE)])

forCondition(s) ==
    IF check(s, "TOKEN_SEMICOLON")
    THEN [match(s, "TOKEN_SEMICOLON") EXCEPT !.ret = -1]
    ELSE With([s1 \in {expression(s)} |->
          With([exitJump \in {emitJump(consume(s1, "TOKEN_SEMICOLON",
                                               "Expected ';' in for loop condition."),
                                       OP_JUMP_IF_FALSE)} |->
            [emitByte(exitJump, OP_POP) EXCEPT !.ret = exitJump.ret]])])

forIncrement(s, loopStart) ==
    IF check(s, "TOKEN_RIGHT_PAREN")
    THEN [match(s, "TOKEN_RIGHT_PAREN") EXCEPT !.ret = loopStart]
    ELSE With([bodyJump \in {emitJump(s, OP_JUMP)} |->
          With([s1 \in {expression(bodyJump)} |->
            With([s2 \in {emitLoop(consume(emitByte(s1, OP_POP), "TOKEN_RIGHT_PAREN",
                                           "Expected ')' after 'for' clause."),
                                   loopStart)} |->
              [backpatchJump(s2, bodyJump.ret)
                  EXCEPT !.ret = Len(currentChunk(bodyJump).code)]])])])

forStatement(s) ==
    With([s1 \in {forInitializer(consume(beginScope(s), "TOKEN_LEFT_PAREN",
                                         "Expected '(' after 'for'."))} |->
      With([exitJump \in {forCondition(s1)} |->
        With([loopStart \in {forIncrement(exitJump, Len(currentChunk(s1).code))} |->
          With([s2 \in {statement(loopStart)} |->
            With([s3 \in {emitLoop(s2, loopStart.ret)} |->
              With([s4 \in {IF exitJump.ret /= -1
                            THEN emitByte(backpatchJump(s3, exitJump.ret), OP_POP)
                            ELSE s3} |->
                endScope([s4 EXCEPT !.loops = Append(@,
                    [function |-> current(s).function,
                     init |-> Len(currentChunk(s).code),
                     loopStart |-> Len(currentChunk(s1).code),
                     exitJump |-> exitJump.ret,
                     incrementStart |-> loopStart.ret,
                     body |-> Len(currentChunk(loopStart).code),
                     end |-> Len(currentChunk(s3).code)])])])])])])])])

ifStatement(s) ==
    With([s1 \in {expression(consume(s, "TOKEN_LEFT_PAREN",
                                     "Expected '(' after 'if' statement"))} |->
      With([thenJump \in {emitJump(consume(s1, "TOKEN_RIGHT_PAREN",
                                           "Expected ')' after 'if' statement"),
                                   OP_JUMP_IF_FALSE)} |->
        With([s2 \in {statement(emitByte(thenJump, OP_POP))} |->
          With([elseJump \in {emitJump(s2, OP_JUMP)} |->
            With([s3 \in {emitByte(backpatchJump(elseJump, thenJump.ret), OP_POP)} |->
              With([s4 \in {IF check(s3, "TOKEN_ELSE")
                            THEN statement(match(s3, "TOKEN_ELSE")) ELSE s3} |->
                backpatchJump(s4, elseJump.ret)])])])])])])

blockLoop(s) ==
    IF ~check(s, "TOKEN_RIGHT_BRACE") /\ ~check(s, "TOKEN_EOF")
    THEN With([s1 \in {declaration(s)} |-> blockLoop(s1)])
    ELSE s

block(s) ==
    With([s1 \in {blockLoop(s)} |->
      consume([s1 EXCEPT !.statements = Append(@,
                  [kind |-> "block", function |-> current(s).function,
                   start |-> Len(currentChunk(s).code),
                   end |-> Len(currentChunk(s1).code), local |-> FALSE,
                   locals |-> Len(current(s).locals), left |-> Len(current(s1).locals),
                   first |-> s.parser.current.type, scans |-> s1.scans - s.scans,
                   current |-> s1.parser.current.type])],
              "TOKEN_RIGHT_BRACE", "Expected '}' after block")])

parameterLoop(s) ==
    With([s1 \in {[s EXCEPT !.heap[current(s).function].arity = @ + 1]} |->
      With([s2 \in {parseVariable(IF s1.heap[current(s).function].arity > 255
                                  THEN errorAtCurrent(s1,
                                          "Can't have more than 255 parameters.")
                                  ELSE s1,
                                  "Expected parameter name.")} |->
        With([m \in {match(defineVariable(s2, s2.ret), "TOKEN_COMMA")} |->
          IF m.ret THEN parameterLoop(m) ELSE m])])])

RECURSIVE emitUpvalues(_, _, _)
emitUpvalues(s, upvalues, i) ==
    IF i > Len(upvalues) THEN s
    ELSE emitUpvalues(emitByte(emitByte(s, IF upvalues[i].isLocal THEN 1 ELSE 0),
                               upvalues[i].index),
                      upvalues, i + 1)

\* closures keeps, for every function compiled, the function whose chunk
\* receives the OP_CLOSURE (function), the function compiled (fn), where
\* the instruction begins (at) and ends (end), the upvalues array of the
\* compiler that ended and the locals of the enclosing one
function(s, type) ==
    With([s1 \in {consume(beginScope(initCompiler(s, type)), "TOKEN_LEFT_PAREN",
                          "Expected '(' after function name.")} |->
      With([s2 \in {consume(IF ~check(s1, "TOKEN_RIGHT_PAREN") THEN parameterLoop(s1)
                            ELSE s1,
                            "TOKEN_RIGHT_PAREN", "Expected ')' after parameters.")} |->
        With([s3 \in {block(consume(s2, "TOKEN_LEFT_BRACE",
                                    "Expected '{' before function body."))} |->
          With([fn \in {endCompiler(s3)} |->
            With([s4 \in {makeConstant(fn, OBJ_VAL(fn.ret))} |->
              With([s5 \in {emitUpvalues(emitBytes(s4, OP_CLOSURE, s4.ret),
                                SubSeq(fn.ended.upvalues, 1, fn.heap[fn.ret].upvalueCount),
                                1)} |->
                [s5 EXCEPT !.closures = Append(@,
                    [function |-> current(s5).function, fn |-> fn.ret,
                     at |-> Len(currentChunk(s4).code),
                     end |-> Len(currentChunk(s5).code),
                     upvalues |-> fn.ended.upvalues,
                     locals |-> current(s5).locals])]])])])])])])

funDeclaration(s) ==
    With([global \in {parseVariable(s, "Expected function name.")} |->
      With([s1 \in {function(markInitialized(global), "TYPE_FUNCTION")} |->
        defineVariable(s1, global.ret)])])

printStatement(s) ==
    With([s1 \in {expression(s)} |->
      emitByte(consume(s1, "TOKEN_SEMICOLON", "Expected ';' after value."), OP_PRINT)])

returnStatement(s) ==
    With([s1 \in {IF current(s).type = "TYPE_SCRIPT"
                  THEN error(s, "Can't return from top-level code.")
                  ELSE s} |->
      IF check(s1, "TOKEN_SEMICOLON") THEN emitReturn(match(s1, "TOKEN_SEMICOLON"))
      ELSE With([s2 \in {expression(s1)} |->
             emitByte(consume(s2, "TOKEN_SEMICOLON",
                              "Expected ';' after return value."),
                      OP_RETURN)])])

\* whiles keeps, for every while statement compiled, where its code lies:
\* loopStart, exitJump (the operand of the OP_JUMP_IF_FALSE), body (the
\* first byte of the body's code), loop (the OP_LOOP) and end (the OP_POP
\* behind the loop)
whileStatement(s) ==
    With([s1 \in {expression(consume(s, "TOKEN_LEFT_PAREN",
                                     "Expect '(' after 'while'."))} |->
      With([exitJump \in {emitJump(consume(s1, "TOKEN_RIGHT_PAREN",
                                           "Expect ')' after condition."),
                                   OP_JUMP_IF_FALSE)} |->
        With([s2 \in {statement(emitByte(exitJump, OP_POP))} |->
          With([s3 \in {emitLoop(s2, Len(currentChunk(s).code))} |->
            [emitByte(backpatchJump(s3, exitJump.ret), OP_POP)
             EXCEPT !.whiles = Append(@,
                [function |-> current(s).function,
                 loopStart |-> Len(currentChunk(s).code),
                 exitJump |-> exitJump.ret,
                 body |-> exitJump.ret + 3,
                 loop |-> Len(currentChunk(s2).code),
                 end |-> Len(currentChunk(s3).code)])]])])])])

SyncTokens ==
    {"TOKEN_CLASS", "TOKEN_FUN", "TOKEN_VAR", "TOKEN_FOR", "TOKEN_IF",
     "TOKEN_WHILE", "TOKEN_PRINT", "TOKEN_RETURN"}

\* s.skipped collects << previous, current >> token types of every iteration
\* that calls advance()
RECURSIVE synchronizeLoop(_)
synchronizeLoop(s) ==
    IF s.parser.current.type /= "TOKEN_EOF"
    THEN IF s.parser.previous.type = "TOKEN_SEMICOLON" THEN s
         ELSE IF s.parser.current.type \in SyncTokens THEN s
              ELSE synchronizeLoop(advance(
                       [s EXCEPT !.skipped = Append(@, << s.parser.previous.type,
                                                          s.parser.current.type >>)]))
    ELSE s

\* Every call of synchronize is entered in s.events with the panicMode it
\* found and left, the tokens it skipped and the tokens it stopped at.
synchronize(s) ==
    With([s1 \in {synchronizeLoop([s EXCEPT !.parser.panicMode = FALSE,
                                            !.skipped = << >>])} |->
        [s1 EXCEPT !.events = Append(@, [kind |-> "synchronize",
                                         panicMode |-> s.parser.panicMode,
                                         cleared |-> ~s1.parser.panicMode,
                                         skipped |-> s1.skipped,
                                         previous |-> s1.parser.previous.type,
                                         current |-> s1.parser.current.type,
                                         hadError |-> s1.parser.hadError])]])

\* statements keeps, for every call of declaration, statement and block,
\* the code it emitted (from start to end in the chunk of function),
\* whether it declared a local variable, the length of the locals array
\* before and after (locals, left), the token it began at (first), the
\* number of calls of scanToken it made (scans) and the token it left as
\* parser.current
declaration(s) ==
    With([s1 \in {CASE check(s, "TOKEN_FUN") -> funDeclaration(match(s, "TOKEN_FUN"))
                    [] check(s, "TOKEN_VAR") -> varDeclaration(match(s, "TOKEN_VAR"))
                    [] OTHER -> statement(s)} |->
      With([s2 \in {IF s1.parser.panicMode THEN synchronize(s1) ELSE s1} |->
        [s2 EXCEPT !.statements = Append(@,
            [kind |-> "declaration", function |-> current(s).function,
             start |-> Len(currentChunk(s).code),
             end |-> Len(currentChunk(s2).code),
             local |-> /\ check(s, "TOKEN_FUN") \/ check(s, "TOKEN_VAR")
                       /\ current(s).scopeDepth > 0,
             locals |-> Len(current(s).locals), left |-> Len(current(s2).locals),
           first |-> s.parser.current.type, scans |-> s2.scans - s.scans,
             current |-> s2.parser.current.type])]])])

statement(s) ==
    With([s2 \in {
        CASE check(s, "TOKEN_PRINT") -> printStatement(match(s, "TOKEN_PRINT"))
          [] check(s, "TOKEN_FOR") -> forStatement(match(s, "TOKEN_FOR"))
          [] check(s, "TOKEN_IF") -> ifStatement(match(s, "TOKEN_IF"))
          [] check(s, "TOKEN_RETURN") -> returnStatement(match(s, "TOKEN_RETURN"))
          [] check(s, "TOKEN_WHILE") -> whileStatement(match(s, "TOKEN_WHILE"))
          [] check(s, "TOKEN_LEFT_BRACE") ->
                With([s1 \in {block(beginScope(match(s, "TOKEN_LEFT_BRACE")))} |->
                  endScope(s1)])
          [] OTHER -> expressionStatement(s)} |->
      [s2 EXCEPT !.statements = Append(@,
          [kind |-> "statement", function |-> current(s).function,
           start |-> Len(currentChunk(s).code), end |-> Len(currentChunk(s2).code),
           local |-> FALSE,
           locals |-> Len(current(s).locals), left |-> Len(current(s2).locals),
           first |-> s.parser.current.type, scans |-> s2.scans - s.scans,
           current |-> s2.parser.current.type])]])

\* while (!match(TOKEN_EOF)) declaration();  Every declaration consumes a
\* token, so the loop ends within n = Len(s.toks) + 1 iterations; the n
\* iterations are taken as two halves, which keeps the nesting of the
\* definition logarithmic in the length of the source.
compileLoop(s, n) ==
    IF n <= 1
    THEN IF check(s, "TOKEN_EOF") THEN s ELSE declaration(s)
    ELSE With([s1 \in {compileLoop(s, n \div 2)} |-> compileLoop(s1, n - n \div 2)])

\* The state of parser, compiler and VM tables before compile(source) of
\* the token stream toks; heap and strings are those of the VM
CompilerState(toks, heap, strings) ==
    [toks |-> toks, pos |-> 0,
     parser |-> [current |-> ZeroToken, previous |-> ZeroToken,
                 hadError |-> FALSE, panicMode |-> FALSE],
     comps |-> << >>, ended |-> << >>, heap |-> heap, strings |-> strings,
     stderr |-> << >>, ret |-> 0, scans |-> 0,
     patches |-> << >>, scopes |-> << >>, resolved |-> << >>,
     events |-> << >>, skipped |-> << >>, declared |-> << >>, loops |-> << >>,
     pool |-> << >>, logic |-> << >>, whiles |-> << >>,
     closures |-> << >>, statements |-> << >>, calls |-> << >>]

\* the loop of compile has gone from s to s1: statements gets an entry of
\* kind compile
Compiled(s, s1) ==
    [s1 EXCEPT !.statements = Append(@,
        [kind |-> "compile", function |-> current(s).function,
         start |-> Len(currentChunk(s).code), end |-> Len(currentChunk(s1).code),
         local |-> FALSE,
         locals |-> Len(current(s).locals), left |-> Len(current(s1).locals),
         first |-> s.parser.current.type, scans |-> s1.scans - s.scans,
         current |-> s1.parser.current.type])]

\* compile when the function is returned whatever hadError says
compileIgnoringErrors(s) ==
    With([s1 \in {advance([initCompiler(s, "TYPE_SCRIPT")
                              EXCEPT !.parser.hadError = FALSE,
                                     !.parser.panicMode = FALSE])} |->
      With([s2 \in {match(compileLoop(s1, Len(s1.toks) + 1), "TOKEN_EOF")} |-> endCompiler(s2)])])

\* compile: ret is the function, or 0 (NULL) when the parser had an error
compile(s) ==
    With([s1 \in {advance([initCompiler(s, "TYPE_SCRIPT")
                              EXCEPT !.parser.hadError = FALSE,
                                     !.parser.panicMode = FALSE])} |->
      With([s2 \in {match(Compiled(s1, compileLoop(s1, Len(s1.toks) + 1)),
                          "TOKEN_EOF")} |->
        With([s3 \in {endCompiler(s2)} |->
          [s3 EXCEPT !.ret = IF s3.parser.hadError THEN 0 ELSE s3.ret]])])])

(***************************************************************************)
(* The virtual machine.  A machine m is the VM struct: stack (the array;   *)
(* cells at and above stackTop keep what was last written there),          *)
(* stackTop (number of values on the stack), frames, globals, strings,     *)
(* openUpvalues (references, by descending slot), objects (the heap), and  *)
(* what was written to stdout and stderr.                                  *)
(***************************************************************************)
initVM ==
    [stack |-> << >>, stackTop |-> 0, frames |-> << >>, globals |-> initTable,
     strings |-> initTable, openUpvalues |-> << >>, objects |-> << >>,
     stdout |-> << >>, stderr |-> << >>, result |-> "NONE",
     marked |-> {}, freed |-> {}, lost |-> {}, grayStack |-> << >>,
     grayCount |-> 0, grayCapacity |-> 0, grayBuffer |-> "NULL", releasedAt |-> 0,
     hazard |-> [victim |-> 0, victimMarked |-> FALSE, detect |-> FALSE, next |-> 0],
     collections |-> 0,
     bytesAllocated |-> 0, nextGC |-> 1024 * 1024, stress |-> FALSE,
     ledger |-> {}, collecting |-> FALSE, reentered |-> FALSE, dirty |-> FALSE,
     cycle |-> [oldSize |-> 0, newSize |-> 0, bytesAllocated |-> 0, nextGC |-> 0,
                before |-> 0, swept |-> 0, unreached |-> {}, listed |-> {},
                white |-> {}, pushed |-> << >>]]

\* sizeof on an LP64 build.  Obj is type, isMarked and next.
SizeOf ==
    [char |-> 1, uint8_t |-> 1, int |-> 4, pointer |-> 8, Value |-> 16, Entry |-> 24,
     ObjString |-> 40, ObjFunction |-> 72, ObjNative |-> 24, ObjClosure |-> 40,
     ObjUpvalue |-> 48]

\* the capacity GROW_ARRAY has given an array that holds count elements
RECURSIVE ArrayCapacity(_, _)
ArrayCapacity(capacity, count) ==
    IF capacity >= count THEN capacity
    ELSE ArrayCapacity(GROW_CAPACITY(capacity), count)

\* reallocate (kevlox/memory.c), defined with the collector below
RECURSIVE reallocate(_, _, _, _)

\* ALLOCATE_OBJ: the storage comes from reallocate(NULL, 0, size); the object
\* becomes the head of vm.objects
allocateObject(m, size, object) ==
    With([m1 \in {reallocate(m, [part |-> "object", of |-> Len(m.objects) + 1],
                             0, size)} |->
        [m1 EXCEPT !.objects = Append(@, object)]])

push(m, value) ==
    [m EXCEPT !.stack = IF m.stackTop < Len(m.stack)
                        THEN [@ EXCEPT ![m.stackTop + 1] = value]
                        ELSE Append(@, value),
              !.stackTop = @ + 1]

\* pop: the machine after the pop; the value popped is peek(m, 0)
pop(m) == [m EXCEPT !.stackTop = @ - 1]

peek(m, distance) == m.stack[m.stackTop - distance]

resetStack(m) == [m EXCEPT !.stackTop = 0]

frame(m) == Last(m.frames)
frameChunk(m) == m.objects[m.objects[frame(m).closure].function].chunk

\* READ_BYTE: the byte at ip; ReadByte advances ip
byteAt(m, k) == frameChunk(m).code[frame(m).ip + k + 1]
advanceIp(m, k) == [m EXCEPT !.frames[Len(m.frames)].ip = @ + k]
readConstant(m, k) == frameChunk(m).constants[byteAt(m, k) + 1]
readShort(m, k) == byteAt(m, k) * 256 + byteAt(m, k + 1)

runtimeError(m, message) ==
    LET instruction == frame(m).ip - 1
        line == frameChunk(m).lines[instruction + 1]
    IN  [m EXCEPT !.stderr = Append(@, [line |-> line, message |-> message])]

\* isFalsey when the number 0 counts as false, as in C
isFalseyZero(value) ==
    \/ IS_NIL(value)
    \/ (IS_BOOL(value) /\ ~AS_BOOL(value))
    \/ (IS_NUMBER(value) /\ AS_NUMBER(value) = Whole(0))

isFalsey(value) == IS_NIL(value) \/ (IS_BOOL(value) /\ ~AS_BOOL(value))

valuesEqual(a, b) ==
    IF a.t /= b.t THEN FALSE
    ELSE CASE a.t = "bool" -> AS_BOOL(a) = AS_BOOL(b)
           [] a.t = "nil" -> TRUE
           [] a.t = "num" -> DoubleOp("==", AS_NUMBER(a), AS_NUMBER(b))
           [] a.t = "obj" -> AS_OBJ(a) = AS_OBJ(b)

Fault(m, message) ==
    [runtimeError(m, message) EXCEPT !.result = "INTERPRET_RUNTIME_ERROR"]

\* BINARY_OP(valueType, op) of clox/vm.c; m has ip past the opcode
BINARY_OP(m, op) ==
    IF ~IS_NUMBER(peek(m, 0)) \/ ~IS_NUMBER(peek(m, 1))
    THEN Fault(m, "Operands must be numbers.")
    ELSE LET b == AS_NUMBER(peek(m, 0))
             a == AS_NUMBER(peek(m, 1))
         IN  push(pop(pop(m)),
                  IF op \in {">", "<"} THEN BOOL_VAL(DoubleOp(op, a, b))
                  ELSE NUMBER_VAL(DoubleOp(op, a, b)))

OpNot(m) == push(pop(m), BOOL_VAL(isFalsey(peek(m, 0))))

OpNegate(m) ==
    IF ~IS_NUMBER(peek(m, 0)) THEN Fault(m, "Operand must be a number.")
    ELSE push(pop(m), NUMBER_VAL(DoubleOp("neg", AS_NUMBER(peek(m, 0)), Whole(0))))

(***************************************************************************)
(* Upvalues and calls (instruction table of the specification)             *)
(***************************************************************************)
upvalueRead(m, u) ==
    IF m.objects[u].location >= 0 THEN m.stack[m.objects[u].location + 1]
    ELSE m.objects[u].closed

upvalueWrite(m, u, value) ==
    IF m.objects[u].location >= 0
    THEN [m EXCEPT !.stack[m.objects[u].location + 1] = value]
    ELSE [m EXCEPT !.objects[u].closed = value]

\* captureUpvalue(slot): ret is the upvalue
captureUpvalue(m, slot) ==
    LET same == {i \in 1..Len(m.openUpvalues) :
                    m.objects[m.openUpvalues[i]].location = slot}
        above == {i \in 1..Len(m.openUpvalues) :
                    m.objects[m.openUpvalues[i]].location > slot}
        n == Cardinality(above)
        created == Len(m.objects) + 1
    IN  IF same /= {} THEN [m |-> m, ret |-> m.openUpvalues[CHOOSE i \in same : TRUE]]
        ELSE [m |-> [allocateObject(m, SizeOf.ObjUpvalue,
                                    [type |-> "OBJ_UPVALUE", location |-> slot,
                                     closed |-> NIL_VAL])
                     EXCEPT !.openUpvalues = SubSeq(@, 1, n) \o << created >>
                                             \o SubSeq(@, n + 1, Len(@))],
              ret |-> created]

RECURSIVE closeUpvalues(_, _)
closeUpvalues(m, last) ==
    IF m.openUpvalues /= << >> /\ m.objects[m.openUpvalues[1]].location >= last
    THEN LET u == m.openUpvalues[1]
         IN  closeUpvalues([m EXCEPT !.objects[u].closed = m.stack[m.objects[u].location + 1],
                                     !.objects[u].location = -1,
                                     !.openUpvalues = Tail(@)],
                           last)
    ELSE m

\* call(closure, argCount)
callClosure(m, closure, argCount) ==
    IF argCount /= m.objects[m.objects[closure].function].arity
    THEN Fault(m, "Expected arguments")
    ELSE IF Len(m.frames) = FRAMES_MAX THEN Fault(m, "Stack overflow.")
    ELSE [m EXCEPT !.frames = Append(@, [closure |-> closure, ip |-> 0,
                                          slots |-> m.stackTop - argCount - 1])]

callValue(m, callee, argCount) ==
    IF IS_OBJ(callee) /\ m.objects[AS_OBJ(callee)].type = "OBJ_CLOSURE"
    THEN callClosure(m, AS_OBJ(callee), argCount)
    ELSE Fault(m, "Can only call functions and classes.")

RECURSIVE closureUpvalues(_, _, _, _)
closureUpvalues(m, closure, i, count) ==
    IF i >= count THEN advanceIp(m, 2 * count)
    ELSE LET isLocal == byteAt(m, 2 * i)
             index == byteAt(m, 2 * i + 1)
             c == IF isLocal /= 0 THEN captureUpvalue(m, frame(m).slots + index)
                  ELSE [m |-> m, ret |-> m.objects[frame(m).closure].upvalues[index + 1]]
         IN  closureUpvalues([c.m EXCEPT !.objects[closure].upvalues = Append(@, c.ret)],
                             closure, i + 1, count)

\* tableSet(&vm.globals, ...) or tableSet(&vm.strings, ...) with the
\* allocations of adjustCapacity: ALLOCATE(Entry, capacity) before the
\* entries are rehashed, FREE_ARRAY(Entry, table->entries, table->capacity)
\* after.  The result is the machine and ret.
tableSetIn(m, name, key, value) ==
    LET old == m[name].capacity
        capacity == GROW_CAPACITY(old)
    IN  IF 4 * (m[name].count + 1) > 3 * old
        THEN With([m1 \in {reallocate(m, [part |-> name, of |-> capacity], 0,
                                      SizeOf.Entry * capacity)} |->
               With([m2 \in {[m1 EXCEPT ![name] =
                                 adjustCapacity(m1.objects, m1[name], capacity)]} |->
                 With([m3 \in {reallocate(m2, [part |-> name, of |-> old],
                                          SizeOf.Entry * old, 0)} |->
                   With([set \in {tableSetEntry(m3.objects, m3[name], key, value)} |->
                     [m |-> [m3 EXCEPT ![name] = set.table], ret |-> set.ret]])])])])
        ELSE With([set \in {tableSetEntry(m.objects, m[name], key, value)} |->
               [m |-> [m EXCEPT ![name] = set.table], ret |-> set.ret]])

\* newClosure: the array of upvalue pointers, then the closure
newClosure(m, fn) ==
    With([m1 \in {reallocate(m, [part |-> "upvalues", of |-> Len(m.objects) + 1], 0,
                             SizeOf.pointer * m.objects[fn].upvalueCount)} |->
        allocateObject(m1, SizeOf.ObjClosure,
                       [type |-> "OBJ_CLOSURE", function |-> fn,
                        upvalues |-> << >>])])

OpClosure(m) ==
    LET fn == AS_OBJ(readConstant(m, 0))
        closure == Len(m.objects) + 1
        m1 == newClosure(m, fn)
    IN  closureUpvalues(push(advanceIp(m1, 1), OBJ_VAL(closure)), closure, 0,
                        m.objects[fn].upvalueCount)

OpReturn(m) ==
    LET result == peek(m, 0)
        m1 == closeUpvalues(pop(m), frame(m).slots)
        m2 == [m1 EXCEPT !.frames = Front(@)]
    IN  IF Len(m2.frames) = 0 THEN [pop(m2) EXCEPT !.result = "INTERPRET_OK"]
        ELSE push([m2 EXCEPT !.stackTop = frame(m).slots], result)


OpGetGlobal(m) ==
    LET name == AS_OBJ(readConstant(m, 0))
        got == tableGet(m.objects, m.globals, name)
    IN  IF ~got.found THEN Fault(advanceIp(m, 1), "Undefined variable")
        ELSE push(advanceIp(m, 1), got.value)

OpDefineGlobal(m) ==
    LET name == AS_OBJ(readConstant(m, 0))
        set == tableSetIn(m, "globals", name, peek(m, 0))
    IN  pop(advanceIp(set.m, 1))

OpSetGlobal(m) ==
    LET name == AS_OBJ(readConstant(m, 0))
        set == tableSetIn(m, "globals", name, peek(m, 0))
    IN  IF set.ret
        THEN Fault(advanceIp([set.m EXCEPT !.globals =
                                 tableDelete(set.m.objects, @, name).table], 1),
                   "Undefined variable")
        ELSE advanceIp(set.m, 1)

OpCall(m) ==
    LET argCount == byteAt(m, 0)
    IN  callValue(advanceIp(m, 1), peek(m, argCount), argCount)

\* one iteration of the loop of run(): the instruction at ip
runStep(m0) ==
    LET instruction == byteAt(m0, 0)
        m == advanceIp(m0, 1)
    IN  CASE instruction = OP_CONSTANT -> push(advanceIp(m, 1), readConstant(m, 0))
          [] instruction = OP_NIL -> push(m, NIL_VAL)
          [] instruction = OP_TRUE -> push(m, BOOL_VAL(TRUE))
          [] instruction = OP_FALSE -> push(m, BOOL_VAL(FALSE))
          [] instruction = OP_POP -> pop(m)
          [] instruction = OP_GET_LOCAL ->
                push(advanceIp(m, 1), m.stack[frame(m).slots + byteAt(m, 0) + 1])
          [] instruction = OP_SET_LOCAL ->
                advanceIp([m EXCEPT !.stack[frame(m).slots + byteAt(m, 0) + 1] = peek(m, 0)], 1)
          [] instruction = OP_GET_GLOBAL -> OpGetGlobal(m)
          [] instruction = OP_DEFINE_GLOBAL -> OpDefineGlobal(m)
          [] instruction = OP_SET_GLOBAL -> OpSetGlobal(m)
          [] instruction = OP_GET_UPVALUE ->
                push(advanceIp(m, 1),
                     upvalueRead(m, m.objects[frame(m).closure].upvalues[byteAt(m, 0) + 1]))
          [] instruction = OP_SET_UPVALUE ->
                advanceIp(upvalueWrite(m, m.objects[frame(m).closure].upvalues[byteAt(m, 0) + 1],
                                       peek(m, 0)), 1)
          [] instruction = OP_EQUAL ->
                push(pop(pop(m)), BOOL_VAL(valuesEqual(peek(m, 1), peek(m, 0))))
          [] instruction = OP_GREATER -> BINARY_OP(m, ">")
          [] instruction = OP_LESS -> BINARY_OP(m, "<")
          [] instruction = OP_ADD -> BINARY_OP(m, "+")
          [] instruction = OP_SUBTRACT -> BINARY_OP(m, "-")
          [] instruction = OP_MULTIPLY -> BINARY_OP(m, "*")
          [] instruction = OP_DIVIDE -> BINARY_OP(m, "/")
          [] instruction = OP_NOT -> OpNot(m)
          [] instruction = OP_NEGATE -> OpNegate(m)
          [] instruction = OP_PRINT -> [pop(m) EXCEPT !.stdout = Append(@, peek(m, 0))]
          [] instruction = OP_JUMP -> advanceIp(m, 2 + readShort(m, 0))
          [] instruction = OP_JUMP_IF_FALSE ->
                advanceIp(m, 2 + (IF isFalsey(peek(m, 0)) THEN readShort(m, 0) ELSE 0))
          [] instruction = OP_LOOP -> advanceIp(m, 2 - readShort(m, 0))
          [] instruction = OP_CALL -> OpCall(m)
          [] instruction = OP_CLOSURE -> OpClosure(m)
          [] instruction = OP_CLOSE_UPVALUE -> pop(closeUpvalues(m, m.stackTop - 1))
          [] instruction = OP_RETURN -> OpReturn(m)

\* the sum of the sizes of these blocks
RECURSIVE TotalSize(_)
TotalSize(blocks) ==
    IF blocks = {} THEN 0
    ELSE LET held == CHOOSE b \in blocks : TRUE
         IN  held.size + TotalSize(blocks \ {held})

\* The blocks that are allocated when compile returns: those of the machine
\* it started on, without the old array of vm.strings, and what compile got
\* from reallocate for the objects it created (newFunction and the arrays
\* of its chunk, copyString) and for the array of vm.strings.  A block is
\* [part, of, size]: the part of object of, or the array of a table by
\* its capacity.
CompiledBlocks(m, heap, strings) ==
    LET Block(part, of, size) == [part |-> part, of |-> of, size |-> size]
        Chunk(o) ==
            LET capacity == ArrayCapacity(0, Len(heap[o].chunk.code))
                constants == ArrayCapacity(0, Len(heap[o].chunk.constants))
            IN  {Block("code", o, SizeOf.uint8_t * capacity),
                 Block("lines", o, SizeOf.int * capacity),
                 Block("constants", o, SizeOf.Value * constants)}
        Of(o) == IF heap[o].type = "OBJ_FUNCTION"
                 THEN {Block("object", o, SizeOf.ObjFunction)} \cup Chunk(o)
                 ELSE {Block("object", o, SizeOf.ObjString),
                       Block("chars", o, SizeOf.char * (Len(heap[o].chars) + 1))}
        blocks == {b \in m.ledger : b.part /= "strings"}
                  \cup UNION {Of(o) : o \in (Len(m.objects) + 1)..Len(heap)}
                  \cup {Block("strings", strings.capacity,
                               SizeOf.Entry * strings.capacity)}
    IN  {b \in blocks : b.size > 0}

\* interpret up to the call of run(): compile the source into the VM's heap;
\* the machine is left at the first instruction of the script.  The result
\* is the machine, with the parser's flags and the compiler's logs.
interpret(m, toks) ==
    With([s \in {compile(CompilerState(toks, m.objects, m.strings))} |->
     With([blocks \in {CompiledBlocks(m, s.heap, s.strings)} |->
      With([m1 \in {[m EXCEPT !.objects = s.heap, !.strings = s.strings,
                              !.stderr = @ \o s.stderr,
                              !.ledger = blocks,
                              !.bytesAllocated = @ + TotalSize(blocks \ m.ledger)
                                                   - TotalSize(m.ledger \ blocks)]} |->
        [vm |-> IF s.ret = 0 THEN [m1 EXCEPT !.result = "INTERPRET_COMPILE_ERROR"]
                ELSE [callClosure(
                        push(newClosure(m1, s.ret), OBJ_VAL(Len(m1.objects) + 1)),
                        Len(m1.objects) + 1, 0)
                      EXCEPT !.result = "RUNNING"],
         parser |-> [hadError |-> s.parser.hadError, panicMode |-> s.parser.panicMode],
         compiled |-> [patches |-> s.patches, scopes |-> s.scopes,
                       resolved |-> s.resolved, events |-> s.events,
                       declared |-> s.declared, loops |-> s.loops,
                       pool |-> s.pool, logic |-> s.logic,
                       whiles |-> s.whiles, closures |-> s.closures,
                       statements |-> s.statements, calls |-> s.calls]]])])])

(***************************************************************************)
(* The garbage collector (kevlox/memory.c).  The machine carries the mark  *)
(* bits (marked: the objects whose isMarked is true), the objects that     *)
(* were freed (freed), the objects that are no longer linked in the        *)
(* vm.objects list although they were not freed (lost), and the gray       *)
(* stack: its cells (grayStack; a cell keeps what was last written),       *)
(* grayCount, grayCapacity and the state of the buffer vm.grayStack points *)
(* to (grayBuffer: "NULL", "allocated" or "released").  The vm.objects     *)
(* list links the objects from the newest to the oldest.                   *)
(*                                                                         *)
(* freeObject ends with free(vm.grayStack) and leaves the pointer and      *)
(* grayCapacity as they are.  What the C library does with a released      *)
(* buffer that is written, freed or resized again is not defined; hazard   *)
(* is what it does in this collection: detect tells whether free/realloc   *)
(* recognise the released pointer and abort the process; victim is the     *)
(* object whose storage now occupies the released buffer (0: none), so     *)
(* that cell 0 of the gray stack lies over its type and isMarked and       *)
(* cell 1 over its next link; victimMarked tells whether the byte of a     *)
(* pointer that lands on isMarked is non-zero; next is the link written    *)
(* over victim->next (0: not written).  releasedAt is the number of        *)
(* objects allocated before the buffer was released.                       *)
(***************************************************************************)
markObject(m, object) ==
    IF object = 0 \/ m.result = "ABORTED" THEN m
    ELSE IF object \in m.marked THEN m
    ELSE LET grow == m.grayCapacity < m.grayCount + 1
             released == m.grayBuffer = "released"
             aliased == released /\ ~grow /\ m.hazard.victim /= 0
             isMarked == m.marked \cup {object}
         IN  IF grow /\ released /\ m.hazard.detect
             THEN [m EXCEPT !.marked = isMarked, !.result = "ABORTED"]
             ELSE [m EXCEPT
                     !.marked = IF aliased /\ m.grayCount = 0
                                THEN (IF m.hazard.victimMarked
                                      THEN isMarked \cup {m.hazard.victim}
                                      ELSE isMarked \ {m.hazard.victim})
                                ELSE isMarked,
                     !.grayCapacity = IF grow THEN GROW_CAPACITY(@) ELSE @,
                     !.grayBuffer = IF grow THEN "allocated" ELSE @,
                     !.grayStack = IF m.grayCount < Len(@)
                                   THEN [@ EXCEPT ![m.grayCount + 1] = object]
                                   ELSE Append(@, object),
                     !.grayCount = @ + 1,
                     !.cycle.pushed = Append(@, object),
                     !.hazard.next = IF aliased /\ m.grayCount = 1 THEN object ELSE @]

markValue(m, value) == IF IS_OBJ(value) THEN markObject(m, AS_OBJ(value)) ELSE m

\* markArray: values[i - 1] of C and the values after it
RECURSIVE markArray(_, _, _)
markArray(m, values, i) ==
    IF i > Len(values) THEN m
    ELSE markArray(markValue(m, values[i]), values, i + 1)

\* blackenObject.  The upvalue pointers of a closure are marked in array
\* order, each as the object it refers to.  The type of the hazard's
\* victim is overwritten by cell 0 and matches no case of the switch.
blackenObject(m, object) ==
    LET o == m.objects[object]
    IN  IF object = m.hazard.victim THEN m
        ELSE IF o.type = "OBJ_CLOSURE"
        THEN markArray(markObject(m, o.function),
                       [i \in 1..Len(o.upvalues) |-> OBJ_VAL(o.upvalues[i])], 1)
        ELSE IF o.type = "OBJ_FUNCTION"
        THEN markArray(markObject(m, o.name), o.chunk.constants, 1)
        ELSE IF o.type = "OBJ_UPVALUE"
        THEN markValue(m, o.closed)
        ELSE m

RECURSIVE traceReferences(_)
traceReferences(m) ==
    IF m.grayCount > 0
    THEN traceReferences(blackenObject([m EXCEPT !.grayCount = @ - 1],
                                       m.grayStack[m.grayCount]))
    ELSE m

\* markTable: entry i - 1 of C and the entries after it
RECURSIVE markTable(_, _, _)
markTable(m, table, i) ==
    IF i > table.capacity THEN m
    ELSE markTable(markValue(markObject(m, table.entries[i].key),
                             table.entries[i].value),
                   table, i + 1)

\* markRoots: the stack below stackTop, the closures of the frames, the
\* open upvalues, the globals; markCompilerRoots (compiler.c of the final
\* program) marks the functions being compiled, none while run() executes
markRoots(m) ==
    With([m1 \in {markArray(m, SubSeq(m.stack, 1, m.stackTop), 1)} |->
      With([m2 \in {markArray(m1, [i \in 1..Len(m.frames) |->
                                      OBJ_VAL(m.frames[i].closure)], 1)} |->
        With([m3 \in {markArray(m2, [i \in 1..Len(m.openUpvalues) |->
                                        OBJ_VAL(m.openUpvalues[i])], 1)} |->
          markTable(m3, m.globals, 1)])])])

\* tableRemoveWhite(&vm.strings): entry i - 1 of C and the entries after it
RECURSIVE tableRemoveWhite(_, _)
tableRemoveWhite(m, i) ==
    IF i > m.strings.capacity THEN m
    ELSE LET key == m.strings.entries[i].key
         IN  tableRemoveWhite(
                 IF key /= 0 /\ key \notin m.marked
                 THEN [m EXCEPT !.strings = tableDelete(m.objects, @, key).table]
                 ELSE m,
                 i + 1)

\* freeObject that frees the bytes of a string without the terminator
\* (FREE_ARRAY(char, string->chars, string->length))
freeObjectShortChars(m, object) ==
    LET o == m.objects[object]
        FREE(mm, part, size) == reallocate(mm, [part |-> part, of |-> object], size, 0)
        capacity == ArrayCapacity(0, Len(o.chunk.code))
        released ==
            IF object = m.hazard.victim THEN m
            ELSE CASE o.type = "OBJ_CLOSURE" ->
                        FREE(FREE(m, "upvalues",
                                  SizeOf.pointer * m.objects[o.function].upvalueCount),
                             "object", SizeOf.ObjClosure)
                   [] o.type = "OBJ_FUNCTION" ->
                        FREE(FREE(FREE(FREE(m, "code", SizeOf.uint8_t * capacity),
                                       "lines", SizeOf.int * capacity),
                                  "constants",
                                  SizeOf.Value
                                  * ArrayCapacity(0, Len(o.chunk.constants))),
                             "object", SizeOf.ObjFunction)
                   [] o.type = "OBJ_STRING" ->
                        FREE(FREE(m, "chars", SizeOf.char * Len(o.chars)),
                             "object", SizeOf.ObjString)
                   [] o.type = "OBJ_UPVALUE" -> FREE(m, "object", SizeOf.ObjUpvalue)
    IN  With([m1 \in {[released EXCEPT !.freed = @ \cup {object}]} |->
            IF m1.grayBuffer = "allocated"
            THEN [m1 EXCEPT !.grayBuffer = "released", !.releasedAt = Len(m.objects)]
            ELSE IF m1.grayBuffer = "released" /\ m1.hazard.detect
            THEN [m1 EXCEPT !.result = "ABORTED"]
            ELSE m1])

\* freeObject: the object's storage is released through FREE and FREE_ARRAY
\* (freeChunk releases code, lines and the constants), and then the gray
\* stack's buffer (free(vm.grayStack), memory.c:137); vm.grayStack and
\* grayCapacity keep their values.  free(NULL) does nothing; a second free
\* of the same buffer is detected (abort) or not.  The type of the hazard's
\* victim matches no case of the switch.
freeObject(m, object) ==
    LET o == m.objects[object]
        FREE(mm, part, size) == reallocate(mm, [part |-> part, of |-> object], size, 0)
        capacity == ArrayCapacity(0, Len(o.chunk.code))
        released ==
            IF object = m.hazard.victim THEN m
            ELSE CASE o.type = "OBJ_CLOSURE" ->
                        FREE(FREE(m, "upvalues",
                                  SizeOf.pointer * m.objects[o.function].upvalueCount),
                             "object", SizeOf.ObjClosure)
                   [] o.type = "OBJ_FUNCTION" ->
                        FREE(FREE(FREE(FREE(m, "code", SizeOf.uint8_t * capacity),
                                       "lines", SizeOf.int * capacity),
                                  "constants",
                                  SizeOf.Value
                                  * ArrayCapacity(0, Len(o.chunk.constants))),
                             "object", SizeOf.ObjFunction)
                   [] o.type = "OBJ_STRING" ->
                        FREE(FREE(m, "chars", SizeOf.char * (Len(o.chars) + 1)),
                             "object", SizeOf.ObjString)
                   [] o.type = "OBJ_UPVALUE" -> FREE(m, "object", SizeOf.ObjUpvalue)
    IN  With([m1 \in {[released EXCEPT !.freed = @ \cup {object}]} |->
            IF m1.grayBuffer = "allocated"
            THEN [m1 EXCEPT !.grayBuffer = "released", !.releasedAt = Len(m.objects)]
            ELSE IF m1.grayBuffer = "released" /\ m1.hazard.detect
            THEN [m1 EXCEPT !.result = "ABORTED"]
            ELSE m1])

\* sweep that leaves isMarked set on the objects it keeps
RECURSIVE sweepKeepingMarks(_, _)
sweepKeepingMarks(m, object) ==
    IF object = 0 \/ m.result = "ABORTED" THEN m
    ELSE LET older == {o \in 1..(object - 1) : o \notin m.freed \cup m.lost}
             linked == IF older = {} THEN 0
                       ELSE CHOOSE o \in older : \A p \in older : p <= o
             overwritten == object = m.hazard.victim /\ m.hazard.next /= 0
             next == IF overwritten THEN m.hazard.next ELSE linked
         IN  IF overwritten /\ next \notin older
             THEN [m EXCEPT !.result = "ABORTED"]
             ELSE With([m1 \in {[m EXCEPT !.lost = @ \cup {o \in older : o > next}]} |->
                    sweepKeepingMarks(IF object \in m1.marked
                          THEN m1
                          ELSE freeObject(m1, object),
                          next)])

\* sweep: the walk of the vm.objects list from object on.  object->next is
\* the newest older object of the list, unless object is the hazard's
\* victim and cell 1 of the gray stack was written over its link: then the
\* walk goes on at that object, and the objects between the two are no
\* longer in the list.  A link to an object the walk has passed never
\* reaches NULL: the process does not leave sweep.
RECURSIVE sweep(_, _)
sweep(m, object) ==
    IF object = 0 \/ m.result = "ABORTED" THEN m
    ELSE LET older == {o \in 1..(object - 1) : o \notin m.freed \cup m.lost}
             linked == IF older = {} THEN 0
                       ELSE CHOOSE o \in older : \A p \in older : p <= o
             overwritten == object = m.hazard.victim /\ m.hazard.next /= 0
             next == IF overwritten THEN m.hazard.next ELSE linked
         IN  IF overwritten /\ next \notin older
             THEN [m EXCEPT !.result = "ABORTED"]
             ELSE With([m1 \in {[m EXCEPT !.lost = @ \cup {o \in older : o > next}]} |->
                    sweep(IF object \in m1.marked
                          THEN [m1 EXCEPT !.marked = @ \ {object}]
                          ELSE freeObject(m1, object),
                          next)])

\* the objects the program can still reach: the roots (the values of the
\* stack below stackTop, the closures of the frames, the open upvalues, the
\* keys and values of the globals) and what they refer to
RECURSIVE ReachableFrom(_, _)
ReachableFrom(m, S) ==
    LET Of(value) == IF IS_OBJ(value) /\ AS_OBJ(value) /= 0 THEN {AS_OBJ(value)} ELSE {}
        Refs(o) ==
            IF m.objects[o].type = "OBJ_CLOSURE"
            THEN {m.objects[o].function}
                 \cup {m.objects[o].upvalues[i] : i \in 1..Len(m.objects[o].upvalues)}
            ELSE IF m.objects[o].type = "OBJ_FUNCTION"
            THEN ({m.objects[o].name} \ {0})
                 \cup UNION {Of(m.objects[o].chunk.constants[i]) :
                                i \in 1..Len(m.objects[o].chunk.constants)}
            ELSE IF m.objects[o].type = "OBJ_UPVALUE"
            THEN Of(m.objects[o].closed)
            ELSE {}
        T == S \cup UNION {Refs(o) : o \in S}
    IN  IF T = S THEN S ELSE ReachableFrom(m, T)

Reachable(m) ==
    LET Of(value) == IF IS_OBJ(value) /\ AS_OBJ(value) /= 0 THEN {AS_OBJ(value)} ELSE {}
    IN  ReachableFrom(m,
            UNION {Of(m.stack[k]) : k \in 1..m.stackTop}
            \cup {m.frames[i].closure : i \in 1..Len(m.frames)}
            \cup {m.openUpvalues[i] : i \in 1..Len(m.openUpvalues)}
            \cup UNION {({m.globals.entries[e].key} \ {0}) \cup Of(m.globals.entries[e].value) :
                           e \in 1..m.globals.capacity})

\* collectGarbage that leaves vm.nextGC as it was
collectGarbageKeepingThreshold(m) ==
    LET list == {o \in 1..Len(m.objects) : o \notin m.freed \cup m.lost}
        objects == IF list = {} THEN 0 ELSE CHOOSE o \in list : \A p \in list : p <= o
    IN  IF m.result = "ABORTED" THEN m
        ELSE IF m.collecting THEN [m EXCEPT !.reentered = TRUE]
        ELSE
        With([m0 \in {[m EXCEPT !.collecting = TRUE,
                                !.dirty = @ \/ (list \cap m.marked /= {}),
                                !.cycle.unreached = list \ Reachable(m),
                                !.cycle.pushed = << >>]} |->
          With([m1 \in {traceReferences(markRoots(m0))} |->
            With([m2 \in {IF m1.result = "ABORTED" THEN m1
                          ELSE sweep([tableRemoveWhite(m1, 1) EXCEPT
                                         !.cycle.listed = list,
                                         !.cycle.white = list \ m1.marked],
                                     objects)} |->
              IF m2.result = "ABORTED" THEN [m2 EXCEPT !.collections = @ + 1]
              ELSE [m2 EXCEPT !.collections = @ + 1,
                              !.cycle.swept = m2.bytesAllocated,
                              !.collecting = FALSE]])])])

\* collectGarbage; vm.objects is the newest object of the list.  collecting
\* tells that the call has not returned; reentered, that collectGarbage was
\* called meanwhile; dirty, that some collection found a mark on an object
\* of the list when it began; cycle.swept is bytesAllocated after sweep and
\* cycle.unreached the objects of the list that no root led to when the
\* collection began; cycle.listed are the objects of the list when sweep
\* is called and cycle.white those of them whose mark bit is clear then;
\* cycle.pushed are the objects markObject has put on the gray stack in
\* this collection, in that order.
collectGarbage(m) ==
    LET list == {o \in 1..Len(m.objects) : o \notin m.freed \cup m.lost}
        objects == IF list = {} THEN 0 ELSE CHOOSE o \in list : \A p \in list : p <= o
    IN  IF m.result = "ABORTED" THEN m
        ELSE IF m.collecting THEN [m EXCEPT !.reentered = TRUE]
        ELSE
        With([m0 \in {[m EXCEPT !.collecting = TRUE,
                                !.dirty = @ \/ (list \cap m.marked /= {}),
                                !.cycle.unreached = list \ Reachable(m),
                                !.cycle.pushed = << >>]} |->
          With([m1 \in {traceReferences(markRoots(m0))} |->
            With([m2 \in {IF m1.result = "ABORTED" THEN m1
                          ELSE sweep([tableRemoveWhite(m1, 1) EXCEPT
                                         !.cycle.listed = list,
                                         !.cycle.white = list \ m1.marked],
                                     objects)} |->
              IF m2.result = "ABORTED" THEN [m2 EXCEPT !.collections = @ + 1]
              ELSE [m2 EXCEPT !.collections = @ + 1,
                              !.nextGC = m2.bytesAllocated * GC_HEAP_GROW_FACTOR,
                              !.cycle.swept = m2.bytesAllocated,
                              !.collecting = FALSE]])])])

\* reallocate without the test for growth (newSize > oldSize)
reallocateAtEveryCall(m, pointer, oldSize, newSize) ==
    LET Above(a, b) == IF a < 0 THEN b >= 0 \/ a > b ELSE b >= 0 /\ a > b
        Collect(mm) ==
            collectGarbage([mm EXCEPT !.cycle = [oldSize |-> oldSize, newSize |-> newSize,
                                                 bytesAllocated |-> mm.bytesAllocated,
                                                 nextGC |-> mm.nextGC,
                                                 before |-> @.swept,
                                                 swept |-> @.swept,
                                                 unreached |-> @.unreached,
                                                 listed |-> @.listed,
                                                 white |-> @.white,
                                                 pushed |-> @.pushed]])
        held == {b \in m.ledger : b.part = pointer.part /\ b.of = pointer.of}
    IN  IF m.result = "ABORTED" THEN m
        ELSE
        With([m1 \in {[m EXCEPT !.bytesAllocated = @ + newSize - oldSize]} |->
          With([m2 \in {With([c \in {IF m1.stress THEN Collect(m1) ELSE m1} |->
                          IF Above(c.bytesAllocated, c.nextGC) THEN Collect(c)
                          ELSE c])} |->
            [m2 EXCEPT !.ledger = (@ \ held)
                                  \cup (IF newSize = 0 THEN {}
                                        ELSE {[part |-> pointer.part, of |-> pointer.of,
                                               size |-> newSize]})]])])

\* reallocate(pointer, oldSize, newSize).  pointer names the block: the part
\* of an object or the array of a table (with oldSize = 0 the C pointer is
\* NULL and pointer names the block that realloc returns).  size_t is
\* unsigned: a counter below zero stands for its value plus 2^64, which is
\* above every size of this model.  The ledger is what malloc holds: free
\* and realloc release the block whatever oldSize says.  cycle keeps the
\* arguments and the counters of the last call that collected, and
\* bytesAllocated as the collection before it left it (before).
reallocate(m, pointer, oldSize, newSize) ==
    LET Above(a, b) == IF a < 0 THEN b >= 0 \/ a > b ELSE b >= 0 /\ a > b
        Collect(mm) ==
            collectGarbage([mm EXCEPT !.cycle = [oldSize |-> oldSize, newSize |-> newSize,
                                                 bytesAllocated |-> mm.bytesAllocated,
                                                 nextGC |-> mm.nextGC,
                                                 before |-> @.swept,
                                                 swept |-> @.swept,
                                                 unreached |-> @.unreached,
                                                 listed |-> @.listed,
                                                 white |-> @.white,
                                                 pushed |-> @.pushed]])
        held == {b \in m.ledger : b.part = pointer.part /\ b.of = pointer.of}
    IN  IF m.result = "ABORTED" THEN m
        ELSE
        With([m1 \in {[m EXCEPT !.bytesAllocated = @ + newSize - oldSize]} |->
          With([m2 \in {IF newSize > oldSize
                        THEN With([c \in {IF m1.stress THEN Collect(m1) ELSE m1} |->
                               IF Above(c.bytesAllocated, c.nextGC) THEN Collect(c)
                               ELSE c])
                        ELSE m1} |->
            [m2 EXCEPT !.ledger = (@ \ held)
                                  \cup (IF newSize = 0 THEN {}
                                        ELSE {[part |-> pointer.part, of |-> pointer.of,
                                               size |-> newSize]})]])])

(***************************************************************************)
(* Source programs.  The scanner's output for a program is its token       *)
(* stream; a program is a sequence of at most MaxFrags statement groups    *)
(* of the pool below, one per source line.                                 *)
(***************************************************************************)
Lexeme(type) ==
    CASE type = "TOKEN_LEFT_PAREN" -> <<40>>
      [] type = "TOKEN_RIGHT_PAREN" -> <<41>>
      [] type = "TOKEN_LEFT_BRACE" -> <<123>>
      [] type = "TOKEN_RIGHT_BRACE" -> <<125>>
      [] type = "TOKEN_COMMA" -> <<44>>
      [] type = "TOKEN_MINUS" -> <<45>>
      [] type = "TOKEN_PLUS" -> <<43>>
      [] type = "TOKEN_SEMICOLON" -> <<59>>
      [] type = "TOKEN_SLASH" -> <<47>>
      [] type = "TOKEN_STAR" -> <<42>>
      [] type = "TOKEN_GREATER" -> <<62>>
      [] type = "TOKEN_BANG" -> <<33>>
      [] type = "TOKEN_EQUAL" -> <<61>>
      [] type = "TOKEN_EQUAL_EQUAL" -> <<61, 61>>
      [] type = "TOKEN_LESS" -> <<60>>
      [] type = "TOKEN_LESS_EQUAL" -> <<60, 61>>
      [] type = "TOKEN_AND" -> <<97, 110, 100>>
      [] type = "TOKEN_ELSE" -> <<101, 108, 115, 101>>
      [] type = "TOKEN_FALSE" -> <<102, 97, 108, 115, 101>>
      [] type = "TOKEN_FOR" -> <<102, 111, 114>>
      [] type = "TOKEN_FUN" -> <<102, 117, 110>>
      [] type = "TOKEN_IF" -> <<105, 102>>
      [] type = "TOKEN_NIL" -> <<110, 105, 108>>
      [] type = "TOKEN_OR" -> <<111, 114>>
      [] type = "TOKEN_PRINT" -> <<112, 114, 105, 110, 116>>
      [] type = "TOKEN_RETURN" -> <<114, 101, 116, 117, 114, 110>>
      [] type = "TOKEN_TRUE" -> <<116, 114, 117, 101>>
      [] type = "TOKEN_VAR" -> <<118, 97, 114>>
      [] type = "TOKEN_WHILE" -> <<119, 104, 105, 108, 101>>

Fragments ==
    LET K(type) == [type |-> type, lex |-> Lexeme(type)]
        Id(c) == [type |-> "TOKEN_IDENTIFIER", lex |-> <<c>>]
        Num(c) == [type |-> "TOKEN_NUMBER", lex |-> <<c>>]
        Str(c) == [type |-> "TOKEN_STRING", lex |-> <<34, c, 34>>]
        LP == K("TOKEN_LEFT_PAREN")   RP == K("TOKEN_RIGHT_PAREN")
        LB == K("TOKEN_LEFT_BRACE")   RB == K("TOKEN_RIGHT_BRACE")
        SEMI == K("TOKEN_SEMICOLON")  EQ == K("TOKEN_EQUAL")
        VAR == K("TOKEN_VAR")         PRINT == K("TOKEN_PRINT")
        FUN == K("TOKEN_FUN")         BANG == K("TOKEN_BANG")
        LT == K("TOKEN_LESS")         PLUS == K("TOKEN_PLUS")
        EQEQ == K("TOKEN_EQUAL_EQUAL")
        AND == K("TOKEN_AND")         OR == K("TOKEN_OR")
        a == Id(97)  f == Id(102)  g == Id(103)  i == Id(105)  x == Id(120)
        s == Id(115)
        n0 == Num(48)  n1 == Num(49)  n2 == Num(50)  n3 == Num(51)  n5 == Num(53)
        sa == Str(97)  sb == Str(98)
        Differ(c, d) == << PRINT, Str(c), EQEQ, Str(d), SEMI >>
        printX == << FUN, g, LP, RP, LB, PRINT, x, SEMI, RB >>
    IN  << \* 1: var a = 1;
           << VAR, a, EQ, n1, SEMI >>,
           \* 2: { var a = 2; a = 3; print a; }
           << LB, VAR, a, EQ, n2, SEMI, a, EQ, n3, SEMI, PRINT, a, SEMI, RB >>,
           \* 3: print a;
           << PRINT, a, SEMI >>,
           \* 4: fun f() { var x = 1; fun g() { print x; } x = 2; g(); }
           << FUN, f, LP, RP, LB, VAR, x, EQ, n1, SEMI >> \o printX
              \o << x, EQ, n2, SEMI, g, LP, RP, SEMI, RB >>,
           \* 5: f();
           << f, LP, RP, SEMI >>,
           \* 6: var f; { { var x = 1; fun g() { print x; } f = g; } }
           << VAR, f, SEMI, LB, LB, VAR, x, EQ, n1, SEMI >> \o printX
              \o << f, EQ, g, SEMI, RB, RB >>,
           \* 7: print !nil; print !false; print !0; print !"a"; print !true;
           << PRINT, BANG, K("TOKEN_NIL"), SEMI, PRINT, BANG, K("TOKEN_FALSE"), SEMI,
              PRINT, BANG, n0, SEMI, PRINT, BANG, sa, SEMI,
              PRINT, BANG, K("TOKEN_TRUE"), SEMI >>,
           \* 8: for (var i = 0; i < 2; i = i + 1) if (i == 1) print "a"; else print "b";
           << K("TOKEN_FOR"), LP, VAR, i, EQ, n0, SEMI, i, LT, n2, SEMI,
              i, EQ, i, PLUS, n1, RP, K("TOKEN_IF"), LP, i, EQEQ, n1, RP,
              PRINT, sa, SEMI, K("TOKEN_ELSE"), PRINT, sb, SEMI >>,
           \* 9: while (a < 3) a = a + 1;
           << K("TOKEN_WHILE"), LP, a, LT, n3, RP, a, EQ, a, PLUS, n1, SEMI >>,
           \* 10: print ;
           << PRINT, SEMI >>,
           \* 11: print 1 + nil;
           << PRINT, n1, PLUS, K("TOKEN_NIL"), SEMI >>,
           \* 12: print -true;
           << PRINT, K("TOKEN_MINUS"), K("TOKEN_TRUE"), SEMI >>,
           \* 13: print "a" == "a"; print nil or 1 and "a";
           << PRINT, sa, EQEQ, sa, SEMI, PRINT, K("TOKEN_NIL"), K("TOKEN_OR"),
              n1, K("TOKEN_AND"), sa, SEMI >>,
           \* 14: print "c" == "d"; print "e" == "h"; print "j" == "k"; print "l" == "c";
           Differ(99, 100) \o Differ(101, 104) \o Differ(106, 107) \o Differ(108, 99),
           \* 15: f(); f(); f();
           << f, LP, RP, SEMI, f, LP, RP, SEMI, f, LP, RP, SEMI >>,
           \* 16: a = 1;
           << a, EQ, n1, SEMI >>,
           \* 17: a * a = 1; print ;
           << a, K("TOKEN_STAR"), a, EQ, n1, SEMI, PRINT, SEMI >>,
           \* 18: { var x = x; }
           << LB, VAR, x, EQ, x, SEMI, RB >>,
           \* 19: { var a = 1; } { var a = 2; print a; }
           << LB, VAR, a, EQ, n1, SEMI, RB, LB, VAR, a, EQ, n2, SEMI, PRINT, a, SEMI, RB >>,
           \* 20: { var a = 1; var a = 2; }
           << LB, VAR, a, EQ, n1, SEMI, VAR, a, EQ, n2, SEMI, RB >>,
           \* 21: { var a = 1; { var a = 2; print a; } print a; }
           << LB, VAR, a, EQ, n1, SEMI, LB, VAR, a, EQ, n2, SEMI, PRINT, a, SEMI, RB,
              PRINT, a, SEMI, RB >>,
           \* 22: var s = 0; for (var i = 1; i <= 5; i = i + 1) s = s + i; print s;
           << VAR, s, EQ, n0, SEMI, K("TOKEN_FOR"), LP, VAR, i, EQ, n1, SEMI,
              i, K("TOKEN_LESS_EQUAL"), n5, SEMI, i, EQ, i, PLUS, n1, RP,
              s, EQ, s, PLUS, i, SEMI, PRINT, s, SEMI >>,
           \* 23: for (;;) print 1;
           << K("TOKEN_FOR"), LP, SEMI, SEMI, RP, PRINT, n1, SEMI >>,
           \* 24: for (; false; ) print 1; print 2;
           << K("TOKEN_FOR"), LP, SEMI, K("TOKEN_FALSE"), SEMI, RP, PRINT, n1, SEMI,
              PRINT, n2, SEMI >>,
           \* 25: var a = "a" + "b"; var b = "ab"; print a == b;
           << VAR, a, EQ, sa, PLUS, sb, SEMI,
              VAR, Id(98), EQ, [type |-> "TOKEN_STRING", lex |-> <<34, 97, 98, 34>>], SEMI,
              PRINT, a, EQEQ, Id(98), SEMI >>,
           \* 26: a * a = 1; (a) = 2; -a = 3; a = 1 + a = 2;
           << a, K("TOKEN_STAR"), a, EQ, n1, SEMI, LP, a, RP, EQ, n2, SEMI,
              K("TOKEN_MINUS"), a, EQ, n3, SEMI, a, EQ, n1, PLUS, a, EQ, n2, SEMI >>,
           \* 27: var a; var x; a = x = 3; print a; print x;
           << VAR, a, SEMI, VAR, x, SEMI, a, EQ, x, EQ, n3, SEMI,
              PRINT, a, SEMI, PRINT, x, SEMI >>,
           \* 28: fun f() { var x = 1; fun g() { fun f() { x = 2; print x; print a; } f(); }
           \*     g(); print x; } f();
           << FUN, f, LP, RP, LB, VAR, x, EQ, n1, SEMI,
              FUN, g, LP, RP, LB,
              FUN, f, LP, RP, LB, x, EQ, n2, SEMI, PRINT, x, SEMI, PRINT, a, SEMI, RB,
              f, LP, RP, SEMI, RB,
              g, LP, RP, SEMI, PRINT, x, SEMI, RB, f, LP, RP, SEMI >> >>
        \* 29 and later: 1; 1; ... 1;  with 255, 256, ... statements
        \o [k \in 1..(MaxOver + 2) |->
              [j \in 1..(2 * (UINT8_MAX - 1 + k)) |-> IF j % 2 = 1 THEN n1 ELSE SEMI]]
        \o << \* Later(1): print nil and (a = 2); print a; print 1 or (a = 3); print a;
              \*           print 0 or 1; print false and 1;
              << PRINT, K("TOKEN_NIL"), AND, LP, a, EQ, n2, RP, SEMI, PRINT, a, SEMI,
                 PRINT, n1, OR, LP, a, EQ, n3, RP, SEMI, PRINT, a, SEMI,
                 PRINT, n0, OR, n1, SEMI, PRINT, K("TOKEN_FALSE"), AND, n1, SEMI >>,
              \* Later(2): print 1 and (a = 2); print a; print false or (a = 3); print a;
              \*           print nil or false; print 1 and nil;
              << PRINT, n1, AND, LP, a, EQ, n2, RP, SEMI, PRINT, a, SEMI,
                 PRINT, K("TOKEN_FALSE"), OR, LP, a, EQ, n3, RP, SEMI, PRINT, a, SEMI,
                 PRINT, K("TOKEN_NIL"), OR, K("TOKEN_FALSE"), SEMI,
                 PRINT, n1, AND, K("TOKEN_NIL"), SEMI >>,
              \* Later(3): while (a < 3) { print a; a = a + 1; } print a;
              << K("TOKEN_WHILE"), LP, a, LT, n3, RP, LB, PRINT, a, SEMI,
                 a, EQ, a, PLUS, n1, SEMI, RB, PRINT, a, SEMI >>,
              \* Later(4): fun f() { var x = 1; var a = 2;
              \*             fun g() { print x; print a; print x; x = a; }
              \*             g(); print x; } f();
              << FUN, f, LP, RP, LB, VAR, x, EQ, n1, SEMI, VAR, a, EQ, n2, SEMI,
                 FUN, g, LP, RP, LB, PRINT, x, SEMI, PRINT, a, SEMI, PRINT, x, SEMI,
                 x, EQ, a, SEMI, RB,
                 g, LP, RP, SEMI, PRINT, x, SEMI, RB, f, LP, RP, SEMI >>,
              \* Later(5): var f; fun g() { fun x() { x; } f = x; } g(); fun s() { }
              << VAR, f, SEMI, FUN, g, LP, RP, LB, FUN, x, LP, RP, LB, x, SEMI, RB,
                 f, EQ, x, SEMI, RB, g, LP, RP, SEMI, FUN, s, LP, RP, LB, RB >>,
              \* Later(6): while (a < 3) { var x = a; a = a + 1; print x; } print a;
              << K("TOKEN_WHILE"), LP, a, LT, n3, RP, LB, VAR, x, EQ, a, SEMI,
                 a, EQ, a, PLUS, n1, SEMI, PRINT, x, SEMI, RB, PRINT, a, SEMI >>,
              \* Later(7): for (var i = 0; i < 2; i = i + 1) { var x = i; print x; }
              << K("TOKEN_FOR"), LP, VAR, i, EQ, n0, SEMI, i, LT, n2, SEMI,
                 i, EQ, i, PLUS, n1, RP, LB, VAR, x, EQ, i, SEMI, PRINT, x, SEMI,
                 RB >>,
              \* Later(8): print 1; ) print 2; { print 3; ) print 5;
              << PRINT, n1, SEMI, RP, PRINT, n2, SEMI, LB, PRINT, n3, SEMI, RP,
                 PRINT, n5, SEMI >> >>
        \* the last: fun f() { print "c"; print "d"; print "e"; } print "a";
        \o << << FUN, f, LP, RP, LB, PRINT, Str(99), SEMI, PRINT, Str(100), SEMI,
                 PRINT, Str(101), SEMI, RB, PRINT, sa, SEMI >> >>

\* the number of the j-th fragment behind the long ones
Later(j) == 28 + MaxOver + 2 + j

\* the tokens of fragment k on source line line
FragmentTokens(k, line) ==
    [j \in 1..Len(Fragments[k]) |->
        Tok(Fragments[k][j].type, Fragments[k][j].lex, line)]

\* The texts of the arithmetic expressions with n operators (a pair of
\* parentheses counts as one) over the digits of Literals, by the level of
\* the usual grammar: 1 sums and differences, 2 products and quotients,
\* 3 unary minus, 4 literals and parenthesised expressions.
RECURSIVE Arithmetic(_, _)
Arithmetic(level, n) ==
    LET Binary(ops) ==
            UNION {{l \o << op >> \o r : l \in Arithmetic(level, k),
                                         r \in Arithmetic(level + 1, n - 1 - k),
                                         op \in ops} : k \in 0..(n - 1)}
    IN  CASE level = 1 -> Arithmetic(2, n) \cup Binary({43, 45})
          [] level = 2 -> Arithmetic(3, n) \cup Binary({42, 47})
          [] level = 3 -> Arithmetic(4, n) \cup
                          (IF n = 0 THEN {}
                           ELSE {<< 45 >> \o e : e \in Arithmetic(3, n - 1)})
          [] level = 4 -> IF n = 0 THEN {<< c >> : c \in Literals}
                          ELSE {<< 40 >> \o e \o << 41 >> : e \in Arithmetic(1, n - 1)}

\* the tokens of  print text;  where every byte of text is one token
PrintTokens(text) ==
    LET Type(c) == CASE c = 40 -> "TOKEN_LEFT_PAREN"
                     [] c = 41 -> "TOKEN_RIGHT_PAREN"
                     [] c = 42 -> "TOKEN_STAR"
                     [] c = 43 -> "TOKEN_PLUS"
                     [] c = 45 -> "TOKEN_MINUS"
                     [] c = 47 -> "TOKEN_SLASH"
                     [] OTHER -> "TOKEN_NUMBER"
    IN  << Tok("TOKEN_PRINT", Lexeme("TOKEN_PRINT"), 1) >>
        \o [j \in 1..Len(text) |-> Tok(Type(text[j]), << text[j] >>, 1)]
        \o << Tok("TOKEN_SEMICOLON", Lexeme("TOKEN_SEMICOLON"), 1) >>

\* a program is a sequence of fragment numbers, one per line, or 0 followed
\* by the text of an expression to print
RECURSIVE SourceTokens(_, _)
SourceTokens(program, line) ==
    IF program /= << >> /\ program[1] = 0 THEN PrintTokens(Tail(program))
    ELSE IF line > Len(program) THEN << >>
    ELSE FragmentTokens(program[line], line) \o SourceTokens(program, line + 1)

\* The programs: up to MaxFrags lines of the fragments 1..15 in every order,
\* each later fragment alone and after  var a = 1;  and  print e;  for every
\* arithmetic expression e with at most MaxOps operators
Programs ==
    UNION {[1..n -> 1..15] : n \in 0..MaxFrags}
    \cup {<< k >> : k \in 16..Len(Fragments)}
    \cup {<< 1, k >> : k \in 16..Len(Fragments)}
    \cup UNION {{<< 0 >> \o e : e \in Arithmetic(1, n)} : n \in 0..MaxOps}

(***************************************************************************)
(* Long jumps.  A jump over more code than the programs above hold: the    *)
(* compiler has emitted prefix bytes of a script, emits a jump (emitJump), *)
(* then body bytes for the statements it jumps over, and patches the jump  *)
(* (backpatchJump); the VM then takes the jump.  A jump j is               *)
(* [phase, prefix, instruction, body] with what was observed of the        *)
(* compiler and the VM: the offset emitJump returned, the chunk count at   *)
(* patch time (target), the opcode and the two operand bytes in the code,  *)
(* hadError, and the ip after the jump.                                    *)
(***************************************************************************)
\* the compiler after n more calls of emitByte by expression statements
\* (nil; compiles to OP_NIL OP_POP)
emitBody(s, n) ==
    [s EXCEPT !.heap[current(s).function].chunk.code =
                  @ \o [i \in 1..n |-> IF i % 2 = 1 THEN OP_NIL ELSE OP_POP],
              !.heap[current(s).function].chunk.lines =
                  @ \o [i \in 1..n |-> s.parser.previous.line]]

BodyLengths == (0..MaxBody) \cup {UINT16_MAX - 1 + k : k \in 0..(MaxOver + 1)}

NoJump ==
    [phase |-> "none", prefix |-> 0, instruction |-> OP_JUMP, body |-> 0,
     offset |-> 0, target |-> 0, opcode |-> 0, operand |-> << 0, 0 >>,
     hadError |-> FALSE, ip |-> 0]

JumpStarts == {[NoJump EXCEPT !.phase = "start", !.prefix = p] : p \in 0..MaxPrefix}

\* the compiler before the jump, after emitJump, after the body, after
\* backpatchJump
BeforeJump(j) ==
    emitBody(initCompiler(CompilerState(<< >>, << >>, initTable), "TYPE_SCRIPT"),
             j.prefix)

AfterEmitJump(j) == emitJump(BeforeJump(j), j.instruction)

AfterBody(j) == emitBody(AfterEmitJump(j), j.body)

AfterPatch(j) == backpatchJump(AfterBody(j), j.offset)

\* the machine about to execute the jump instruction of the function of s
\* whose operand is at offset, with false on top of the stack
MachineAtJump(s, offset) ==
    LET closure == Len(s.heap) + 1
    IN  [initVM EXCEPT !.objects = Append(s.heap, [type |-> "OBJ_CLOSURE",
                                                    function |-> current(s).function,
                                                    upvalues |-> << >>]),
                       !.stack = << OBJ_VAL(closure), BOOL_VAL(FALSE) >>,
                       !.stackTop = 2,
                       !.frames = << [closure |-> closure, ip |-> offset - 1,
                                      slots |-> 0] >>,
                       !.result = "RUNNING"]

(***************************************************************************)
(* The interpreter as a state machine: interpret(source) on a fresh VM,    *)
(* then run() one instruction at a time.                                   *)
(***************************************************************************)
VARIABLES source, vm, parser, compiled, steps, jump

vars == << source, vm, parser, compiled, steps, jump >>

Init ==
    /\ source \in Programs
    /\ vm = initVM
    /\ parser = [hadError |-> FALSE, panicMode |-> FALSE]
    /\ compiled = [patches |-> << >>, scopes |-> << >>, resolved |-> << >>,
                   events |-> << >>, declared |-> << >>, loops |-> << >>,
                   pool |-> << >>, logic |-> << >>, whiles |-> << >>,
                   closures |-> << >>, statements |-> << >>, calls |-> << >>]
    /\ steps = 0
    /\ jump = NoJump

Interpret ==
    /\ vm.result = "NONE"
    /\ jump.phase = "none"
    /\ \E r \in {interpret(vm, SourceTokens(source, 1))} :
          /\ vm' = r.vm
          /\ parser' = r.parser
          /\ compiled' = r.compiled
    /\ UNCHANGED << source, steps, jump >>

Run ==
    /\ vm.result = "RUNNING"
    /\ steps < MaxSteps
    /\ vm' = runStep(vm)
    /\ steps' = steps + 1
    /\ UNCHANGED << source, parser, compiled, jump >>

Next == Interpret \/ Run

Spec == Init /\ [][Next]_vars

(***************************************************************************)
(* The long jump as a state machine                                        *)
(***************************************************************************)
InitJumps ==
    /\ source = << >>
    /\ vm = initVM
    /\ parser = [hadError |-> FALSE, panicMode |-> FALSE]
    /\ compiled = [patches |-> << >>, scopes |-> << >>, resolved |-> << >>,
                   events |-> << >>, declared |-> << >>, loops |-> << >>,
                   pool |-> << >>, logic |-> << >>, whiles |-> << >>,
                   closures |-> << >>, statements |-> << >>, calls |-> << >>]
    /\ steps = 0
    /\ jump \in JumpStarts

JumpEmit ==
    /\ jump.phase = "start"
    /\ \E instruction \in {OP_JUMP, OP_JUMP_IF_FALSE} :
          \E j \in {[jump EXCEPT !.instruction = instruction]} :
             jump' = [j EXCEPT !.phase = "emitted", !.offset = AfterEmitJump(j).ret]
    /\ UNCHANGED << source, vm, parser, compiled, steps >>

JumpBody ==
    /\ jump.phase = "emitted"
    /\ \E n \in BodyLengths :
          jump' = [jump EXCEPT !.phase = "body", !.body = n]
    /\ UNCHANGED << source, vm, parser, compiled, steps >>

JumpPatch ==
    /\ jump.phase = "body"
    /\ \E s1 \in {AfterPatch(jump)} :
          /\ jump' = [jump EXCEPT !.phase = "patched",
                                  !.target = Len(currentChunk(AfterBody(jump)).code),
                                  !.opcode = currentChunk(s1).code[jump.offset],
                                  !.operand = << currentChunk(s1).code[jump.offset + 1],
                                                 currentChunk(s1).code[jump.offset + 2] >>,
                                  !.hadError = s1.parser.hadError]
          /\ parser' = [hadError |-> s1.parser.hadError,
                        panicMode |-> s1.parser.panicMode]
          /\ compiled' = [compiled EXCEPT !.patches = s1.patches]
    /\ UNCHANGED << source, vm, steps >>

\* compile returns the function only when no error was reported
JumpTake ==
    /\ jump.phase = "patched"
    /\ ~jump.hadError
    /\ jump' = [jump EXCEPT !.phase = "taken",
                            !.ip = frame(runStep(MachineAtJump(AfterPatch(jump),
                                                               jump.offset))).ip]
    /\ UNCHANGED << source, vm, parser, compiled, steps >>

JumpNext == JumpEmit \/ JumpBody \/ JumpPatch \/ JumpTake

SpecJump == (Init \/ InitJumps) /\ [][Next \/ JumpNext]_vars

(***************************************************************************)
(* Garbage collection as a step of the machine.  reallocate() calls        *)
(* collectGarbage() before it allocates, when the allocation grows the     *)
(* heap past vm.nextGC (or at every allocation under DEBUG_STRESS_GC).     *)
(* CollectGarbage is the iteration of run() for an OP_CLOSURE whose        *)
(* allocation of the closure collects first.  Hazards are the things the   *)
(* C library can do with the gray stack's buffer in one collection: an     *)
(* object can lie over the released buffer when it was allocated after     *)
(* the release.                                                            *)
(***************************************************************************)
Hazards(m) ==
    {[victim |-> 0, victimMarked |-> FALSE, detect |-> d, next |-> 0] : d \in BOOLEAN}
    \cup {[victim |-> v, victimMarked |-> b, detect |-> d, next |-> 0] :
              v \in {o \in (m.releasedAt + 1)..Len(m.objects) :
                        m.grayBuffer = "released" /\ o \notin m.freed \cup m.lost},
              b \in BOOLEAN, d \in BOOLEAN}

CollectGarbage ==
    /\ vm.result = "RUNNING"
    /\ steps < MaxSteps
    /\ byteAt(vm, 0) = OP_CLOSURE
    /\ vm.collections < MaxCollections
    /\ \E hazard \in Hazards(vm) :
          \E collected \in {collectGarbage([vm EXCEPT !.hazard = hazard])} :
             vm' = IF collected.result = "RUNNING" THEN runStep(collected)
                   ELSE collected
    /\ steps' = steps + 1
    /\ UNCHANGED << source, parser, compiled, jump >>

SpecGC == Init /\ [][Next \/ CollectGarbage]_vars

(***************************************************************************)
(* Properties of interpret, the compiler and run().                        *)
(***************************************************************************)
\* the positions of the locals of this array that carry this name
SlotsNamed(locals, name) == {k \in 1..Len(locals) : locals[k].name = name}

Max(S) == CHOOSE x \in S : \A y \in S : y <= x

\* the value the globals table of machine m holds for the name with these
\* bytes; found is FALSE when no key has these bytes
GlobalNamed(m, chars) ==
    LET at == {e \in 1..m.globals.capacity :
                  /\ m.globals.entries[e].key /= 0
                  /\ m.objects[m.globals.entries[e].key].chars = chars}
    IN  IF at = {} THEN [found |-> FALSE, value |-> NIL_VAL]
        ELSE [found |-> TRUE, value |-> m.globals.entries[CHOOSE e \in at : TRUE].value]

\* the instruction run() executes next
NextInstruction == byteAt(vm, 0)

\* C1: interpret returns INTERPRET_COMPILE_ERROR exactly when the compile
\* set hadError, and then run() was never entered: no instruction has
\* executed, no call frame exists and nothing was written to stdout.
C1_CompileErrorRunsNothing ==
    vm.result /= "NONE" =>
        /\ (vm.result = "INTERPRET_COMPILE_ERROR") <=> parser.hadError
        /\ parser.hadError => /\ steps = 0
                              /\ vm.frames = << >>
                              /\ vm.stdout = << >>
                              /\ vm.stackTop = 0

\* a program whose first line compiles and whose second line has an error
C1_Witness ==
    /\ source = << 7, 10 >>
    /\ vm.result = "INTERPRET_COMPILE_ERROR"
    /\ parser.hadError
    /\ vm.stderr /= << >>

\* C2: after any collectGarbage() every object reachable from the roots is
\* still in the vm.objects list (not freed, not unlinked) with its mark bit
\* clear, so that no object that was freed is reachable
C2_CollectionKeepsReachable ==
    (vm.collections > 0 /\ vm.result /= "ABORTED") =>
        \A o \in Reachable(vm) :
            o \notin vm.freed /\ o \notin vm.lost /\ o \notin vm.marked

\* a second collection has returned after the first one freed garbage, and
\* the closure called f is still reachable through the global f
C2_Witness ==
    /\ vm.collections = 2
    /\ vm.result = "RUNNING"
    /\ vm.freed /= {}
    /\ GlobalNamed(vm, << 102 >>).found
    /\ AS_OBJ(GlobalNamed(vm, << 102 >>).value) \in Reachable(vm)

\* C3: a local declared in a block is invisible after the block's closing
\* brace: every endScope leaves no local of the ending scope in the locals
\* array and emits one OP_POP per local of that scope, and a name used at
\* the top level of the script, where every block has ended, resolves to a
\* global, not to a slot.
C3_EndScopeRemovesLocals ==
    /\ \A i \in 1..Len(compiled.scopes) :
          LET e == compiled.scopes[i]
          IN  /\ \A k \in 1..Len(e.after) : e.after[k].depth < e.depth
              /\ e.pops = Cardinality({k \in 1..Len(e.before) :
                                          e.before[k].depth >= e.depth})
    /\ \A i \in 1..Len(compiled.resolved) :
          LET r == compiled.resolved[i]
          IN  (Len(r.comps) = 1 /\ r.comps[1].scopeDepth = 0)
                 => r.op \in {OP_GET_GLOBAL, OP_SET_GLOBAL}

\* { var a = 2; a = 3; print a; } print a;  has run: the second print read
\* the slot of the block's local
C3_Witness ==
    /\ source = << 2, 3 >>
    /\ vm.result = "INTERPRET_OK"
    /\ vm.stdout = << NUMBER_VAL(Whole(3)), NUMBER_VAL(Whole(3)) >>

\* every name used while a local of that name is in the locals array was
\* compiled to a local instruction on the innermost such slot
ResolvedToInnermostLocal ==
    \A i \in 1..Len(compiled.resolved) :
        LET r == compiled.resolved[i]
            slots == SlotsNamed(Last(r.comps).locals, r.name)
        IN  slots /= {} =>
              /\ r.op \in {OP_GET_LOCAL, OP_SET_LOCAL}
              /\ r.arg = Max(slots) - 1
              /\ vm.objects[r.function].chunk.code[r.at + 1] = r.op
              /\ vm.objects[r.function].chunk.code[r.at + 2] = r.arg

\* after  var a = 1; { var a = 2; a = 3; print a; }  the global a is 1
GlobalKeptAcrossBlock ==
    (source = << 1, 2 >> /\ vm.result = "INTERPRET_OK")
        => GlobalNamed(vm, << 97 >>) = [found |-> TRUE, value |-> NUMBER_VAL(Whole(1))]

\* a step of run() on OP_GET_LOCAL or OP_SET_LOCAL
LocalStepKeepsGlobals ==
    (vm.result = "RUNNING" /\ NextInstruction \in {OP_GET_LOCAL, OP_SET_LOCAL})
        => vm'.globals = vm.globals

\* C4: shadowing a global inside a block does not mutate the global.  While
\* a local with the name is in the locals array, every read and assignment
\* of the name compiles to OP_GET_LOCAL / OP_SET_LOCAL on the slot of the
\* innermost such local; a step of run() on OP_GET_LOCAL or OP_SET_LOCAL
\* leaves the globals table as it was; and the global's entry has the same
\* value after the block as before it.
C4_ShadowedGlobalUnchanged ==
    /\ [](ResolvedToInnermostLocal /\ GlobalKeptAcrossBlock)
    /\ [][LocalStepKeepsGlobals]_vars

\* var a = 1; { var a = 2; a = 3; print a; }  has run: the block printed its
\* local, assigned 3, and the global a is still 1
C4_Witness ==
    /\ source = << 1, 2 >>
    /\ vm.result = "INTERPRET_OK"
    /\ vm.stdout = << NUMBER_VAL(Whole(3)) >>
    /\ \E i \in 1..Len(compiled.resolved) :
          /\ compiled.resolved[i].op = OP_SET_LOCAL
          /\ compiled.resolved[i].name = << 97 >>
    /\ GlobalNamed(vm, << 97 >>).value = NUMBER_VAL(Whole(1))

\* every name that is no local of the function being compiled but is a local
\* of the enclosing function was compiled to an upvalue instruction whose
\* descriptor is {index = the local's slot, isLocal = true}
ResolvedToEnclosingLocal ==
    \A i \in 1..Len(compiled.resolved) :
        LET r == compiled.resolved[i]
            c == Len(r.comps)
        IN  (/\ c >= 2
             /\ SlotsNamed(r.comps[c].locals, r.name) = {}
             /\ SlotsNamed(r.comps[c - 1].locals, r.name) /= {}) =>
              /\ r.op \in {OP_GET_UPVALUE, OP_SET_UPVALUE}
              /\ r.arg + 1 \in DOMAIN r.upvalues
              /\ r.upvalues[r.arg + 1] =
                    [isLocal |-> TRUE,
                     index |-> Max(SlotsNamed(r.comps[c - 1].locals, r.name)) - 1]
              /\ vm.objects[r.function].chunk.code[r.at + 1] = r.op
              /\ vm.objects[r.function].chunk.code[r.at + 2] = r.arg

\* fun f() { var x = 1; fun g() { print x; } x = 2; g(); }  and  f();  only
\* ever print the reassigned value
ReassignedValueObserved ==
    (\A k \in 1..Len(source) : source[k] \in {4, 5})
        => \A j \in 1..Len(vm.stdout) : vm.stdout[j] = NUMBER_VAL(Whole(2))

C6_UpvalueClosedBeforePop ==
    /\ \A i \in 1..Len(vm.openUpvalues) :
          vm.objects[vm.openUpvalues[i]].location < vm.stackTop
    /\ (source = << 6, 5 >> /\ vm.result = "INTERPRET_OK")
          => vm.stdout = << NUMBER_VAL(Whole(1)) >>

\* the block of x has ended, the closure was called through the global f and
\* printed what the call had pushed on x's slot, not 1
C6_Witness ==
    /\ source = << 6, 5 >>
    /\ vm.result = "INTERPRET_OK"
    /\ Len(vm.stdout) = 1
    /\ IS_OBJ(vm.stdout[1])

\* the String objects of the heap, and those among them that are constants
\* of a compiled function
StringObjects == {o \in 1..Len(vm.objects) : vm.objects[o].type = "OBJ_STRING"}

StringConstants ==
    {o \in StringObjects :
        \E f \in 1..Len(vm.objects) :
            /\ vm.objects[f].type = "OBJ_FUNCTION"
            /\ \E k \in 1..Len(vm.objects[f].chunk.constants) :
                  vm.objects[f].chunk.constants[k] = OBJ_VAL(o)}

\* the keys of the intern table, entry by entry
InternedAt(e) == vm.strings.entries[e].key

\* C7: two string constants of compiled code are the same String object if
\* and only if their bytes are equal, and the intern table holds at most one
\* key per byte content (every String object is one of its keys).
C7_OneStringPerContent ==
    /\ \A a \in StringConstants : \A b \in StringConstants :
          (a = b) <=> (vm.objects[a].chars = vm.objects[b].chars)
    /\ \A d \in 1..vm.strings.capacity : \A e \in 1..vm.strings.capacity :
          (/\ InternedAt(d) /= 0
           /\ InternedAt(e) /= 0
           /\ vm.objects[InternedAt(d)].chars = vm.objects[InternedAt(e)].chars)
              => d = e
    /\ \A o \in StringObjects :
          \E e \in 1..vm.strings.capacity : InternedAt(e) = o

\* print "a" == "a"; ... has printed true and the intern table has grown
\* past its first capacity while the seven strings of the next line were
\* interned
C7_Witness ==
    /\ source = << 13, 14 >>
    /\ vm.result = "INTERPRET_OK"
    /\ vm.stdout[1] = BOOL_VAL(TRUE)
    /\ vm.strings.capacity > 8
    /\ Cardinality(StringConstants) = 8

\* values of every type, the number 0 among them
SampleValues ==
    {NIL_VAL, BOOL_VAL(TRUE), BOOL_VAL(FALSE), NUMBER_VAL(Whole(0)), NUMBER_VAL(Whole(1)),
     NUMBER_VAL(Whole(-1)), OBJ_VAL(1)}

\* isFalsey on the sample values and on every value on the stack
FalseyIsNilOrFalse ==
    \A v \in SampleValues \cup {vm.stack[k] : k \in 1..vm.stackTop} :
        isFalsey(v) <=> v \in {NIL_VAL, BOOL_VAL(FALSE)}

\* a step of run() on OP_NOT replaces the top of the stack
NotStepPushesIsFalsey ==
    (vm.result = "RUNNING" /\ NextInstruction = OP_NOT) =>
        /\ vm'.stackTop = vm.stackTop
        /\ peek(vm', 0) = BOOL_VAL(peek(vm, 0) \in {NIL_VAL, BOOL_VAL(FALSE)})

C10_FaultResetsStack ==
    vm.result = "INTERPRET_RUNTIME_ERROR" =>
        /\ vm.stderr /= << >>
        /\ vm.stackTop = 0

\* print 1 + nil;  has faulted: the error is reported, and the script's
\* closure and both operands are still on the stack
C10_Witness ==
    /\ source = << 11 >>
    /\ vm.result = "INTERPRET_RUNTIME_ERROR"
    /\ vm.stderr = << [line |-> 1, message |-> "Operands must be numbers."] >>
    /\ vm.stackTop = 3

\* the 16-bit operand the code holds at offset, read big-endian
OperandAt(code, offset) == code[offset + 1] * 256 + code[offset + 2]

\* every jump patched while a program was compiled: the operand is the
\* number of bytes from the end of the jump instruction to the patch target
ProgramJumpsPatched ==
    jump.phase = "none" =>
        \A i \in 1..Len(compiled.patches) :
            LET p == compiled.patches[i]
                code == vm.objects[p.function].chunk.code
            IN  /\ code[p.offset] \in {OP_JUMP, OP_JUMP_IF_FALSE}
                /\ OperandAt(code, p.offset) = p.target - p.offset - 2

\* the long jump: patched at chunk count target with the placeholder at offset
LongJumpPatched ==
    jump.phase \in {"patched", "taken"} =>
        LET distance == jump.target - jump.offset - 2
        IN  /\ distance = jump.body
            /\ jump.opcode = jump.instruction
            /\ compiled.patches = << [function |-> 1, offset |-> jump.offset,
                                      target |-> jump.target] >>
            /\ IF distance > UINT16_MAX THEN jump.hadError /\ parser.hadError
               ELSE /\ ~jump.hadError
                    /\ jump.operand = << distance \div 256, distance % 256 >>
                    /\ jump.operand[1] * 256 + jump.operand[2] = distance

LongJumpTaken == jump.phase = "taken" => jump.ip = jump.target

\* a step of run() on a jump instruction of a compiled program: a taken
\* jump leaves ip at the target of the patch of that instruction
JumpStepReachesTarget ==
    (vm.result = "RUNNING" /\ NextInstruction \in {OP_JUMP, OP_JUMP_IF_FALSE}) =>
        \E i \in 1..Len(compiled.patches) :
            LET p == compiled.patches[i]
            IN  /\ p.function = vm.objects[frame(vm).closure].function
                /\ p.offset = frame(vm).ip + 1
                /\ frame(vm').ip =
                      IF NextInstruction = OP_JUMP \/ isFalsey(peek(vm, 0))
                      THEN p.target ELSE frame(vm).ip + 3

\* C9: for every emitJump/backpatchJump pair the big-endian 16-bit operand
\* written over the placeholder is (chunk count at patch time - placeholder
\* offset - 2), so a taken jump sets ip exactly to the patch target; a
\* distance above 65535 is a compile error.
C9_JumpOperandIsDistance ==
    /\ [](ProgramJumpsPatched /\ LongJumpPatched /\ LongJumpTaken)
    /\ [][JumpStepReachesTarget]_vars

\* a jump over exactly 65535 bytes was patched and taken
C9_Witness ==
    /\ jump.phase = "taken"
    /\ jump.body = UINT16_MAX
    /\ jump.operand = << 255, 255 >>
    /\ jump.ip = jump.target

\* a jump over 65536 bytes was patched: the compile has failed
LongJumpRefused ==
    /\ jump.phase = "patched"
    /\ jump.body = UINT16_MAX + 1
    /\ parser.hadError

\* the names (their bytes) that are keys of the globals table of machine m
GlobalNames(m) ==
    {m.objects[m.globals.entries[e].key].chars :
        e \in {e \in 1..m.globals.capacity : m.globals.entries[e].key /= 0}}

\* a step of run() on OP_SET_GLOBAL: when the name is not defined the step
\* faults and the name is still not defined, a lookup of it fails; when it
\* is defined the step stores the value and defines no name
SetGlobalStepCreatesNothing ==
    (vm.result = "RUNNING" /\ NextInstruction = OP_SET_GLOBAL) =>
        LET name == AS_OBJ(readConstant(vm, 1)) IN
        IF tableGet(vm.objects, vm.globals, name).found
        THEN /\ vm'.result = "RUNNING"
             /\ GlobalNames(vm') = GlobalNames(vm)
             /\ tableGet(vm'.objects, vm'.globals, name) =
                   [found |-> TRUE, value |-> peek(vm, 0)]
        ELSE /\ vm'.result = "INTERPRET_RUNTIME_ERROR"
             /\ vm'.stderr /= vm.stderr
             /\ GlobalNames(vm') = GlobalNames(vm)
             /\ ~tableGet(vm'.objects, vm'.globals, name).found

\* a step that changes the names of the globals is a step of run() on
\* OP_DEFINE_GLOBAL, which defines its name with the value on the stack
OnlyDefineGlobalInserts ==
    GlobalNames(vm') /= GlobalNames(vm) =>
        /\ vm.result = "RUNNING"
        /\ NextInstruction = OP_DEFINE_GLOBAL
        /\ GlobalNames(vm') = GlobalNames(vm)
              \cup {vm.objects[AS_OBJ(readConstant(vm, 1))].chars}

\* a step of run() on OP_DEFINE_GLOBAL inserts the name or overwrites it
DefineGlobalStepDefines ==
    (vm.result = "RUNNING" /\ NextInstruction = OP_DEFINE_GLOBAL) =>
        tableGet(vm'.objects, vm'.globals, AS_OBJ(readConstant(vm, 1))) =
            [found |-> TRUE, value |-> peek(vm, 0)]

\* C11: assignment to a global name that was never defined is a runtime
\* error and does not create the variable: after the failed assignment a
\* lookup of the name still fails; only OP_DEFINE_GLOBAL inserts a new name
\* (or overwrites an existing one).
C11_AssignmentCreatesNoGlobal ==
    [][/\ SetGlobalStepCreatesNothing
       /\ OnlyDefineGlobalInserts
       /\ DefineGlobalStepDefines]_vars

\* a = 1;  has faulted on the undefined name a: the error is reported, the
\* globals table holds a tombstone and no name
C11_Witness ==
    /\ source = << 16 >>
    /\ vm.result = "INTERPRET_RUNTIME_ERROR"
    /\ vm.stderr = << [line |-> 1, message |-> "Undefined variable"] >>
    /\ vm.globals.count = 1
    /\ GlobalNames(vm) = {}
    /\ ~GlobalNamed(vm, << 97 >>).found

\* the event before which the parser is in panic mode by the record of the
\* events: a diagnostic was reported and synchronize has not run since
InPanic(events, i) ==
    \E j \in 1..(i - 1) :
        /\ events[j].kind = "errorAt"
        /\ events[j].reported
        /\ \A k \in (j + 1)..(i - 1) : events[k].kind /= "synchronize"

\* the token types at which synchronize stops: previous, current
SynchronizeStops(before, at) ==
    \/ before = "TOKEN_SEMICOLON"
    \/ at \in {"TOKEN_CLASS", "TOKEN_FUN", "TOKEN_VAR", "TOKEN_FOR", "TOKEN_IF",
                    "TOKEN_WHILE", "TOKEN_PRINT", "TOKEN_RETURN", "TOKEN_EOF"}

\* C12: after the first compile error sets panicMode no further diagnostic
\* is reported until synchronize() runs; synchronize clears panicMode and
\* skips tokens until the previous token is ; or the current token is
\* class/fun/var/for/if/while/print/return or EOF; hadError, once set,
\* stays set for the rest of the compile and compile returns NULL.
C12_PanicModeSuppressesUntilSynchronize ==
    LET events == compiled.events
        reports == {i \in 1..Len(events) :
                       events[i].kind = "errorAt" /\ events[i].reported}
    IN  /\ \A i \in 1..Len(events) :
              /\ events[i].panicMode = InPanic(events, i)
              /\ events[i].kind = "errorAt" =>
                    /\ events[i].reported = ~InPanic(events, i)
                    /\ events[i].hadError
              /\ events[i].kind = "synchronize" =>
                    /\ InPanic(events, i)
                    /\ events[i].cleared
                    /\ SynchronizeStops(events[i].previous, events[i].current)
                    /\ \A k \in 1..Len(events[i].skipped) :
                          ~SynchronizeStops(events[i].skipped[k][1],
                                            events[i].skipped[k][2])
              /\ \A j \in 1..i : events[j].hadError => events[i].hadError
        /\ jump.phase = "none" =>
              /\ parser.hadError = (reports /= {})
              /\ parser.hadError =>
                    /\ vm.result = "INTERPRET_COMPILE_ERROR"
                    /\ Len(vm.stderr) = Cardinality(reports)

\* a * a = 1; print ;  was compiled: the error at = is reported, the error
\* of the missing ; is not, synchronize skips 1 and ; and stops before
\* print, the error at the second ; is reported, the error at the end is
\* not, and synchronize stops at the end
C12_Witness ==
    /\ source = << 17 >>
    /\ vm.result = "INTERPRET_COMPILE_ERROR"
    /\ Len(vm.stderr) = 2
    /\ vm.stderr[1].message = "Invalid assignment target"
    /\ [i \in 1..Len(compiled.events) |->
           << compiled.events[i].kind, compiled.events[i].panicMode >>]
       = << << "errorAt", FALSE >>, << "errorAt", TRUE >>, << "synchronize", TRUE >>,
            << "errorAt", FALSE >>, << "errorAt", TRUE >>, << "synchronize", TRUE >> >>
    /\ compiled.events[3].skipped = << << "TOKEN_EQUAL", "TOKEN_NUMBER" >>,
                                       << "TOKEN_NUMBER", "TOKEN_SEMICOLON" >> >>
    /\ compiled.events[3].current = "TOKEN_PRINT"

\* in every array of locals the compiler had when it resolved a name, only
\* the local declared last can have depth -1, and the other locals have the
\* depth of a scope that was open when they were declared
OnlyNewestLocalUninitialized ==
    \A i \in 1..Len(compiled.resolved) :
        \A c \in 1..Len(compiled.resolved[i].comps) :
            LET locals == compiled.resolved[i].comps[c].locals
            IN  \A k \in 1..Len(locals) :
                    /\ locals[k].depth >= -1
                    /\ locals[k].depth = -1 => k = Len(locals)

\* when a block ends every local is initialized; markInitialized on the
\* compilers of a resolution gives the newest local of the current function
\* the depth of the current scope and changes nothing else
LocalsInitializedAtEndScope ==
    /\ \A i \in 1..Len(compiled.scopes) :
          \A k \in 1..Len(compiled.scopes[i].before) :
              compiled.scopes[i].before[k].depth >= 0
    /\ \A i \in 1..Len(compiled.resolved) :
          LET comps == compiled.resolved[i].comps
              n == Len(comps)
              marked == markInitialized([comps |-> comps]).comps
          IN  IF Last(comps).scopeDepth = 0 THEN marked = comps
              ELSE marked = [comps EXCEPT ![n].locals[Len(comps[n].locals)].depth =
                                              comps[n].scopeDepth]

\* a use of a name that resolved to a local of depth -1 was a compile error
UninitializedReadIsError ==
    \A i \in 1..Len(compiled.resolved) :
        LET r == compiled.resolved[i]
        IN  (/\ r.op \in {OP_GET_LOCAL, OP_SET_LOCAL}
             /\ Last(r.comps).locals[r.arg + 1].depth = -1)
            => /\ parser.hadError
               /\ vm.result = "INTERPRET_COMPILE_ERROR"

\* C13: a local is recorded with depth -1 from its declaration until its
\* initializer has been compiled (markInitialized then sets depth to
\* scopeDepth); a read of the name that resolves to that local while its
\* depth is -1 is a compile error, so  { var x = x; }  fails to compile.
C13_UninitializedLocalNotReadable ==
    /\ OnlyNewestLocalUninitialized
    /\ LocalsInitializedAtEndScope
    /\ UninitializedReadIsError

\* { var x = x; }  was compiled: the x of the initializer resolved to the
\* local x in slot 1, which had depth -1, and the error was reported; when
\* the block ended the local had depth 1
C13_Witness ==
    /\ source = << 18 >>
    /\ vm.result = "INTERPRET_COMPILE_ERROR"
    /\ vm.stderr = << [line |-> 1,
                       message |-> "Can't read local variable in its own initializer"] >>
    /\ Len(compiled.resolved) = 1
    /\ compiled.resolved[1].op = OP_GET_LOCAL
    /\ compiled.resolved[1].arg = 1
    /\ Last(compiled.resolved[1].comps).locals[2] = Local(<< 120 >>, -1)
    /\ compiled.scopes[1].before[2] = Local(<< 120 >>, 1)


\* declaration j of the log competes with an earlier declaration of the same
\* name in the same scope of the same function, and that scope has not
\* ended in between
SameOpenScope(i, j) ==
    LET d == compiled.declared
    IN  /\ i < j
        /\ d[i].function = d[j].function
        /\ d[i].depth = d[j].depth
        /\ d[i].name = d[j].name
        /\ \A k \in (d[i].ended + 1)..d[j].ended :
              ~ (/\ compiled.scopes[k].function = d[j].function
                 /\ compiled.scopes[k].depth = d[j].depth)

\* C14: declaring a local is a compile error exactly when another local of
\* the same name was declared in the same, still open scope; a name of an
\* enclosing scope or of a sibling block that has ended is accepted.
C14_RedeclarationOnlyInSameScope ==
    \A j \in 1..Len(compiled.declared) :
        compiled.declared[j].rejected <=> \E i \in 1..(j - 1) : SameOpenScope(i, j)

\* { var a = 1; } { var a = 2; print a; }  was compiled: the second block's
\* declaration of a was rejected although the first block had ended
C14_Witness ==
    /\ source = << 19 >>
    /\ vm.result = "INTERPRET_COMPILE_ERROR"
    /\ Len(compiled.declared) = 2
    /\ compiled.declared[2].rejected
    /\ compiled.declared[1].ended = 0 /\ compiled.declared[2].ended = 1
    /\ compiled.scopes[1].after = << Local(<< >>, 0), Local(<< 97 >>, 1) >>
    /\ \E k \in 1..Len(vm.stderr) :
          vm.stderr[k].message = "Already a variable with this name in this scope"

\* the other two cases behave as the claim says: a second declaration in the
\* same block is rejected, a declaration shadowing the enclosing block's is not
C14_SameScopeAndShadowing ==
    /\ source = << 20 >> =>
          (vm.result \notin {"NONE", "RUNNING"} =>
             /\ vm.result = "INTERPRET_COMPILE_ERROR"
             /\ compiled.declared[2].rejected)
    /\ source = << 21 >> =>
          (vm.result \notin {"NONE", "RUNNING"} =>
             /\ vm.result = "INTERPRET_OK"
             /\ \A j \in 1..Len(compiled.declared) : ~ compiled.declared[j].rejected)


\* The value of an arithmetic expression text in the standard reading, by
\* recursive descent: a sum is products joined by + and - taken from the
\* left, a product is unary operands joined by * and / taken from the left,
\* a unary operand is any number of minus signs before a literal or a
\* parenthesised sum.  Each Read returns [v, p]: the value and the position
\* after what was read.
RECURSIVE ReadSum(_, _), ReadProduct(_, _), ReadUnary(_, _), ReadRest(_, _, _)
ReadPrimary(text, p) ==
    IF text[p] = 40
    THEN LET r == ReadSum(text, p + 1) IN [v |-> r.v, p |-> r.p + 1]
    ELSE [v |-> Whole(text[p] - 48), p |-> p + 1]

ReadUnary(text, p) ==
    IF text[p] = 45
    THEN LET r == ReadUnary(text, p + 1)
         IN  [v |-> DoubleOp("neg", r.v, Whole(0)), p |-> r.p]
    ELSE ReadPrimary(text, p)

\* the operators of one level after the left operand acc, from the left
ReadRest(text, level, acc) ==
    IF acc.p <= Len(text) /\ text[acc.p] \in (IF level = 1 THEN {43, 45} ELSE {42, 47})
    THEN LET r == IF level = 1 THEN ReadProduct(text, acc.p + 1)
                  ELSE ReadUnary(text, acc.p + 1)
             op == CASE text[acc.p] = 43 -> "+" [] text[acc.p] = 45 -> "-"
                     [] text[acc.p] = 42 -> "*" [] text[acc.p] = 47 -> "/"
         IN  ReadRest(text, level, [v |-> DoubleOp(op, acc.v, r.v), p |-> r.p])
    ELSE acc

ReadProduct(text, p) == ReadRest(text, 2, ReadUnary(text, p))

ReadSum(text, p) == ReadRest(text, 1, ReadProduct(text, p))

StandardValue(text) == ReadSum(text, 1).v

C15_LeftAssociative ==
    vm.result = "INTERPRET_OK" =>
        /\ source = << 0, 51, 45, 50, 45, 49 >> => vm.stdout = << NUMBER_VAL(Whole(0)) >>
        /\ source = << 0, 45, 49, 45, 50 >> => vm.stdout = << NUMBER_VAL(Whole(-3)) >>
        /\ source = << 0, 51, 47, 50, 42, 50 >> => vm.stdout = << NUMBER_VAL(Whole(3)) >>


\* The code emitted for every for statement L.  With a condition, the
\* OP_JUMP_IF_FALSE after it targets the OP_POP emitted after the loop, and
\* the byte after the jump is an OP_POP too; the statement's last OP_LOOP
\* targets the increment, or the condition when there is no increment; an
\* increment is jumped over by an OP_JUMP to the body and ends with OP_POP
\* and an OP_LOOP to the condition; no loop instruction targets the
\* initializer.
ForLayout ==
    \A k \in 1..Len(compiled.loops) :
        LET L == compiled.loops[k]
            code == vm.objects[L.function].chunk.code
            At(offset) == code[offset + 1]
            hasCondition == L.exitJump /= -1
            hasIncrement == L.incrementStart /= L.loopStart
        IN  /\ L.init <= L.loopStart
            /\ hasCondition =>
                  /\ At(L.exitJump - 1) = OP_JUMP_IF_FALSE
                  /\ L.exitJump + 2 + OperandAt(code, L.exitJump) = L.end
                  /\ At(L.end) = OP_POP
                  /\ At(L.exitJump + 2) = OP_POP
            /\ At(L.end - 3) = OP_LOOP
            /\ L.end - OperandAt(code, L.end - 2) = L.incrementStart
            /\ IF hasIncrement
               THEN /\ At(L.incrementStart - 3) = OP_JUMP
                    /\ L.incrementStart + OperandAt(code, L.incrementStart - 2) = L.body
                    /\ L.incrementStart - 3 = IF hasCondition THEN L.exitJump + 3
                                              ELSE L.loopStart
                    /\ At(L.body - 4) = OP_POP
                    /\ At(L.body - 3) = OP_LOOP
                    /\ L.body - OperandAt(code, L.body - 2) = L.loopStart
               ELSE L.body = IF hasCondition THEN L.exitJump + 3 ELSE L.loopStart

\* A step of run() inside the code of a for statement L of the running
\* function: the exit jump keeps the condition on the stack and goes to the
\* OP_POP after the loop when it is falsey and to the OP_POP behind the jump
\* otherwise; each of the two OP_POP removes one value; the loop
\* instructions go to the increment and to the condition; nothing goes back
\* to the initializer; and without a condition the step stays in the loop.
ForStep ==
    (vm.result = "RUNNING" /\ vm'.result = "RUNNING" /\ Len(vm'.frames) = Len(vm.frames)) =>
        \A k \in 1..Len(compiled.loops) :
            LET L == compiled.loops[k]
                ip == frame(vm).ip
                next == frame(vm').ip
                inside == ip >= L.loopStart /\ ip < L.end
            IN  L.function = vm.objects[frame(vm).closure].function =>
                  /\ (L.exitJump /= -1 /\ ip = L.exitJump - 1) =>
                        /\ vm'.stackTop = vm.stackTop
                        /\ next = IF isFalsey(peek(vm, 0)) THEN L.end ELSE L.exitJump + 2
                  /\ (L.exitJump /= -1 /\ ip \in {L.exitJump + 2, L.end}) =>
                        /\ vm'.stackTop = vm.stackTop - 1
                        /\ next = ip + 1
                  /\ ip = L.end - 3 => next = L.incrementStart
                  /\ (L.incrementStart /= L.loopStart /\ ip = L.body - 3) => next = L.loopStart
                  /\ inside => ~(next >= L.init /\ next < L.loopStart)
                  /\ (inside /\ L.exitJump = -1) => (next >= L.loopStart /\ next < L.end)

\* for (;;) print 1;  never ends, and
\* for (; false; ) print 1; print 2;  prints 2 only
ForExamples ==
    /\ (source = << 23 >> /\ vm.result /= "NONE") =>
          /\ vm.result = "RUNNING"
          /\ \A k \in 1..Len(vm.stdout) : vm.stdout[k] = NUMBER_VAL(Whole(1))
    /\ (source = << 24 >> /\ vm.result = "INTERPRET_OK") =>
          vm.stdout = << NUMBER_VAL(Whole(2)) >>

IsString(m, value) == IS_OBJ(value) /\ m.objects[AS_OBJ(value)].type = "OBJ_STRING"

\* C17: a step of run() on OP_ADD replaces two numbers by their sum and two
\* strings by their concatenation, which is the one interned String object
\* with those bytes; on any other pair of operands it is a runtime error.
C17_AddNumbersOrStrings ==
    [][(vm.result = "RUNNING" /\ NextInstruction = OP_ADD) =>
          LET a == peek(vm, 1)
              b == peek(vm, 0)
              result == vm'.stack[vm'.stackTop]
          IN  IF IS_NUMBER(a) /\ IS_NUMBER(b)
              THEN /\ vm'.result = "RUNNING"
                   /\ vm'.stackTop = vm.stackTop - 1
                   /\ result = NUMBER_VAL(DoubleOp("+", AS_NUMBER(a), AS_NUMBER(b)))
              ELSE IF IsString(vm, a) /\ IsString(vm, b)
              THEN /\ vm'.result = "RUNNING"
                   /\ vm'.stackTop = vm.stackTop - 1
                   /\ IsString(vm', result)
                   /\ vm'.objects[AS_OBJ(result)].chars =
                         vm.objects[AS_OBJ(a)].chars \o vm.objects[AS_OBJ(b)].chars
                   /\ \A o \in 1..Len(vm'.objects) :
                         (/\ vm'.objects[o].type = "OBJ_STRING"
                          /\ vm'.objects[o].chars = vm'.objects[AS_OBJ(result)].chars)
                            => o = AS_OBJ(result)
              ELSE vm'.result = "INTERPRET_RUNTIME_ERROR"]_vars

\* var a = "a" + "b"; var b = "ab"; print a == b;  stopped at the OP_ADD with
\* a runtime error and both strings still on the stack; nothing was printed
C17_Witness ==
    /\ source = << 25 >>
    /\ vm.result = "INTERPRET_RUNTIME_ERROR"
    /\ vm.stderr = << [line |-> 1, message |-> "Operands must be numbers."] >>
    /\ vm.stdout = << >>
    /\ vm.stackTop >= 2
    /\ IsString(vm, peek(vm, 0)) /\ IsString(vm, peek(vm, 1))
    /\ vm.objects[AS_OBJ(peek(vm, 1))].chars = << 97 >>
    /\ vm.objects[AS_OBJ(peek(vm, 0))].chars = << 98 >>

\* the other two cases of OP_ADD behave as the claim says
AddOtherCases ==
    (vm.result = "RUNNING" /\ NextInstruction = OP_ADD) =>
        LET a == peek(vm, 1)
            b == peek(vm, 0)
        IN  IF IS_NUMBER(a) /\ IS_NUMBER(b)
            THEN /\ vm'.result = "RUNNING"
                 /\ vm'.stack[vm'.stackTop] = NUMBER_VAL(DoubleOp("+", AS_NUMBER(a), AS_NUMBER(b)))
            ELSE vm'.result = "INTERPRET_RUNTIME_ERROR"

AddOnlyNumbers == [][AddOtherCases]_vars


\* the Function objects of the heap
FunctionObjects == {f \in 1..Len(vm.objects) : vm.objects[f].type = "OBJ_FUNCTION"}

\* every OP_CONSTANT operand written by emitConstant: makeConstant returned
\* a byte that indexes a constant the chunk holds, and when the index of the
\* added constant was above 255 the compile has failed
ConstantOperandsValid ==
    \A k \in 1..Len(compiled.pool) :
        LET c == compiled.pool[k]
        IN  /\ c.operand \in 0..UINT8_MAX
            /\ c.operand < c.count
            /\ c.operand = IF c.count - 1 > UINT8_MAX THEN 0 ELSE c.count - 1
            /\ c.count - 1 > UINT8_MAX =>
                  /\ parser.hadError
                  /\ vm.result = "INTERPRET_COMPILE_ERROR"
                  /\ \E e \in 1..Len(vm.stderr) :
                        vm.stderr[e].message = "Too many constants in one chunk"

\* C18: in every compiler state each chunk's constant pool holds at most 256
\* values (after every makeConstant, and in the chunks the compile leaves
\* behind); a constant whose index would exceed 255 is a compile error; every
\* constant operand fits in one byte and indexes an existing constant.
C18_ConstantPoolAtMost256 ==
    /\ \A k \in 1..Len(compiled.pool) : compiled.pool[k].count <= UINT8_COUNT
    /\ \A f \in FunctionObjects : Len(vm.objects[f].chunk.constants) <= UINT8_COUNT
    /\ ConstantOperandsValid

\* 1; 1; ... with 257 statements was compiled: the error was reported and
\* the pool of the script's chunk holds 257 values
C18_Witness ==
    /\ source = << 31 >>
    /\ vm.result = "INTERPRET_COMPILE_ERROR"
    /\ Len(vm.objects[1].chunk.constants) = UINT8_COUNT + 1
    /\ compiled.pool[UINT8_COUNT + 1] = [function |-> 1, count |-> UINT8_COUNT + 1, operand |-> 0]
    /\ vm.stderr = << [line |-> 1, message |-> "Too many constants in one chunk"] >>


SetInstructions == {OP_SET_LOCAL, OP_SET_UPVALUE, OP_SET_GLOBAL}

\* every variable reference compiled: it became a SET instruction exactly
\* when canAssign was true and the token after the name was =, the value's
\* code lies between the start of the reference and the SET, and a reference
\* that is read is the GET alone
SetOnlyWhenAssignable ==
    \A i \in 1..Len(compiled.resolved) :
        LET r == compiled.resolved[i]
            code == vm.objects[r.function].chunk.code
        IN  /\ (r.op \in SetInstructions) <=> (r.canAssign /\ r.next = "TOKEN_EQUAL")
            /\ code[r.at + 1] = r.op
            /\ IF r.op \in SetInstructions
               THEN r.from <= r.at /\ (~parser.hadError => r.from < r.at)
               ELSE r.from = r.at

\* the diagnostics with this message
Reported(message) == {e \in 1..Len(vm.stderr) : vm.stderr[e].message = message}

\* a * a = 1; (a) = 2; -a = 3; a = 1 + a = 2;  reports four invalid targets
\* and compiles no assignment but the outer one of the last statement;
\* var a; var x; a = x = 3; print a; print x;  compiles the SET of x, then
\* the SET of a
AssignmentExamples ==
    /\ (source = << 26 >> /\ vm.result /= "NONE") =>
          /\ vm.result = "INTERPRET_COMPILE_ERROR"
          /\ Cardinality(Reported("Invalid assignment target")) = 4
          /\ Len(vm.stderr) = 4
          /\ Cardinality({i \in 1..Len(compiled.resolved) :
                             compiled.resolved[i].op \in SetInstructions}) = 1
    /\ (source = << 27 >> /\ vm.result /= "NONE") =>
          /\ ~parser.hadError
          /\ compiled.resolved[1].name = << 120 >> /\ compiled.resolved[1].op = OP_SET_GLOBAL
          /\ compiled.resolved[2].name = << 97 >> /\ compiled.resolved[2].op = OP_SET_GLOBAL
          /\ compiled.resolved[2].from < compiled.resolved[1].at
          /\ compiled.resolved[1].at < compiled.resolved[2].at

\* C19: an = after an expression that is not a plain variable reference
\* parsed at assignment precedence is the compile error "Invalid assignment
\* target"; a variable compiles to its SET instruction only when canAssign
\* is true and the next token is =, and the value is compiled before the SET.
C19_InvalidAssignmentTarget ==
    SetOnlyWhenAssignable /\ AssignmentExamples

\* a * a = 1; print ;  was compiled: both uses of a were compiled as reads,
\* the second one with canAssign false, and the = was reported
C19_Witness ==
    /\ source = << 17 >>
    /\ vm.result = "INTERPRET_COMPILE_ERROR"
    /\ vm.stderr[1].message = "Invalid assignment target"
    /\ Len(compiled.resolved) = 2
    /\ compiled.resolved[1].op = OP_GET_GLOBAL /\ compiled.resolved[1].canAssign
    /\ compiled.resolved[1].next = "TOKEN_STAR"
    /\ compiled.resolved[2].op = OP_GET_GLOBAL /\ ~compiled.resolved[2].canAssign
    /\ compiled.resolved[2].next = "TOKEN_EQUAL"


GetSet(kind) ==
    CASE kind = "local" -> {OP_GET_LOCAL, OP_SET_LOCAL}
      [] kind = "upvalue" -> {OP_GET_UPVALUE, OP_SET_UPVALUE}
      [] kind = "global" -> {OP_GET_GLOBAL, OP_SET_GLOBAL}

\* upvalue number index of the function at level of the compiler chain of r
\* refers to this slot of the function at level c: directly (isLocal) from
\* level c + 1, through the upvalues of the functions between otherwise
RECURSIVE UpvalueRefers(_, _, _, _, _)
UpvalueRefers(r, level, index, c, slot) ==
    /\ level > c
    /\ index + 1 \in DOMAIN r.chain[level]
    /\ LET u == r.chain[level][index + 1]
       IN  IF level = c + 1 THEN u.isLocal /\ u.index = slot
           ELSE ~u.isLocal /\ UpvalueRefers(r, level - 1, u.index, c, slot)

\* the constant of the use r is the String object of its name
NameConstant(r) ==
    LET constants == vm.objects[r.function].chunk.constants
    IN  /\ r.arg + 1 \in DOMAIN constants
        /\ IS_OBJ(constants[r.arg + 1])
        /\ vm.objects[AS_OBJ(constants[r.arg + 1])].chars = r.name

\* the use r was compiled as the claim says when Slot(c) is the slot of the
\* innermost declaration of the name in the function at level c of the chain
\* of compilers (-1 when that function has none)
ResolvedBy(r, Slot(_)) ==
    LET n == Len(r.comps)
        levels == {c \in 1..n : Slot(c) /= -1}
    IN  IF levels = {} THEN r.op \in GetSet("global") /\ NameConstant(r)
        ELSE LET c == Max(levels)
             IN  IF c = n THEN r.op \in GetSet("local") /\ r.arg = Slot(n)
                 ELSE /\ r.op \in GetSet("upvalue")
                      /\ UpvalueRefers(r, n, r.arg, c, Slot(c))

\* the declarations of the name of r in the function at level c whose scope
\* is open at the use: the declaration precedes the use and no scope of that
\* depth of the function has ended since
OpenDeclarations(r, c) ==
    {j \in 1..r.declared :
        LET d == compiled.declared[j]
        IN  /\ d.function = r.comps[c].function
            /\ d.name = r.name
            /\ \A k \in (d.ended + 1)..r.ended :
                  ~ (/\ compiled.scopes[k].function = d.function
                     /\ compiled.scopes[k].depth = d.depth)}

DeclaredSlot(r, c) ==
    IF OpenDeclarations(r, c) = {} THEN -1
    ELSE compiled.declared[Max(OpenDeclarations(r, c))].slot

\* the slot resolveLocal finds in the locals array of the function at level c
ScannedSlot(r, c) ==
    IF SlotsNamed(r.comps[c].locals, r.name) = {} THEN -1
    ELSE Max(SlotsNamed(r.comps[c].locals, r.name)) - 1

\* C20: a name resolves to its innermost enclosing declaration: a local of
\* the current function (the most recently declared first), else a local of
\* an enclosing function through an upvalue with isLocal = true, or through
\* an upvalue of the enclosing function with isLocal = false, and a global
\* by the constant of its name only when no enclosing function declares it.
C20_ResolvesToInnermostDeclaration ==
    \A i \in 1..Len(compiled.resolved) :
        LET r == compiled.resolved[i]
            Slot(c) == DeclaredSlot(r, c)
        IN  ResolvedBy(r, Slot)

\* { var a = 2; a = 3; print a; } print a;  was compiled: the use of a after
\* the block, where no declaration of a is open, became OP_GET_LOCAL 1
C20_Witness ==
    /\ source = << 2, 3 >>
    /\ vm.result /= "NONE"
    /\ ~parser.hadError
    /\ Len(compiled.resolved) = 3
    /\ LET r == compiled.resolved[3]
       IN  /\ r.op = OP_GET_LOCAL /\ r.arg = 1
           /\ Len(r.comps) = 1 /\ r.comps[1].scopeDepth = 0
           /\ OpenDeclarations(r, 1) = {}
           /\ r.ended = 1 /\ compiled.scopes[1].depth = 1

\* the order of the search is the one claimed, on the locals arrays as the
\* compiler holds them
ResolvedAsScanned ==
    \A i \in 1..Len(compiled.resolved) :
        LET r == compiled.resolved[i]
            Slot(c) == ScannedSlot(r, c)
        IN  ResolvedBy(r, Slot)

\* fun f() { var x = 1; fun g() { fun f() { x = 2; print x; print a; } f(); }
\* g(); print x; } f();  the innermost function reaches x through an upvalue
\* of g, calls of f inside g go to g's local f, and a is a global
NestedExample ==
    (source = << 28 >> /\ vm.result /= "NONE") =>
        /\ ~parser.hadError
        /\ \E i \in 1..Len(compiled.resolved) :
              LET r == compiled.resolved[i]
              IN  /\ r.name = << 120 >> /\ r.op = OP_SET_UPVALUE /\ Len(r.comps) = 4
                  /\ r.chain[4][r.arg + 1] = [isLocal |-> FALSE, index |-> 0]
                  /\ r.chain[3][1] = [isLocal |-> TRUE, index |-> 1]
        /\ \E i \in 1..Len(compiled.resolved) :
              LET r == compiled.resolved[i]
              IN  r.name = << 102 >> /\ r.op = OP_GET_LOCAL /\ Len(r.comps) = 3
        /\ \E i \in 1..Len(compiled.resolved) :
              LET r == compiled.resolved[i]
              IN  r.name = << 97 >> /\ r.op = OP_GET_GLOBAL /\ Len(r.comps) = 4

(***************************************************************************)
(* The hash table as a state machine: calls of tableSet and tableDelete    *)
(* on the globals table of a VM whose heap holds the interned strings      *)
(* TableKeys.  The calls are those run() makes for OP_DEFINE_GLOBAL and    *)
(* OP_SET_GLOBAL, with any key and value.  The names a, i, q hash to       *)
(* bucket 4 of 8 and h, p to bucket 7, so that probes pass over other      *)
(* keys' slots and wrap around; c and e hash to buckets 2 and 0.           *)
(***************************************************************************)
KeyNames == << 97, 105, 113, 104, 112, 99, 101 >>

TableKeys ==
    [k \in 1..Len(KeyNames) |->
        [type |-> "OBJ_STRING", chars |-> << KeyNames[k] >>,
         hash |-> hashString(<< KeyNames[k] >>)]]

TableValues == {NIL_VAL, BOOL_VAL(TRUE)}

InitTable ==
    /\ source = << >>
    /\ vm = [initVM EXCEPT !.objects = TableKeys, !.result = "TABLE"]
    /\ parser = [hadError |-> FALSE, panicMode |-> FALSE]
    /\ compiled = [patches |-> << >>, scopes |-> << >>, resolved |-> << >>,
                   events |-> << >>, declared |-> << >>, loops |-> << >>,
                   pool |-> << >>, logic |-> << >>, whiles |-> << >>,
                   closures |-> << >>, statements |-> << >>, calls |-> << >>]
    /\ steps = 0
    /\ jump = NoJump

TableSet ==
    /\ vm.result = "TABLE"
    /\ \E key \in 1..Len(vm.objects), value \in TableValues :
          \E r \in {tableSet(vm.objects, vm.globals, key, value)} :
             /\ r.table.capacity <= MaxCapacity
             /\ vm' = [vm EXCEPT !.globals = r.table]
    /\ UNCHANGED << source, parser, compiled, steps, jump >>

TableDelete ==
    /\ vm.result = "TABLE"
    /\ \E key \in 1..Len(vm.objects) :
          vm' = [vm EXCEPT !.globals = tableDelete(vm.objects, vm.globals, key).table]
    /\ UNCHANGED << source, parser, compiled, steps, jump >>

TableNext == TableSet \/ TableDelete

SpecTable == InitTable /\ [][TableNext]_vars

(***************************************************************************)
(* Properties of the hash table.  A property of a call is stated in the    *)
(* state the call is made in, for every key and value of the call.         *)
(***************************************************************************)
\* the keys tableGet finds in this table
Found(m, table) == {k \in 1..Len(m.objects) : tableGet(m.objects, table, k).found}

\* the table after the call tableSet(&vm.globals, key, value)
AfterSet(key, value) == tableSet(vm.objects, vm.globals, key, value).table

\* the table after the call tableDelete(&vm.globals, key)
AfterDelete(key) == tableDelete(vm.objects, vm.globals, key).table

\* C24: when tableSet grows the table, every key that was present before
\* the call is still present after it, and tableGet returns for it the
\* value it returned before (for the key that is set: the value set)
C24_ResizeKeepsValues ==
    vm.result = "TABLE" =>
        \A key \in 1..Len(vm.objects), value \in TableValues :
           LET after == AfterSet(key, value)
           IN  after.capacity > vm.globals.capacity =>
                  \A k \in Found(vm, vm.globals) \ {key} :
                     /\ tableGet(vm.objects, after, k).found
                     /\ tableGet(vm.objects, after, k).value
                            = tableGet(vm.objects, vm.globals, k).value

\* the table was grown to 16 slots by the seventh tableSet, six keys having
\* been set before: the key a is still present
C24_Witness ==
    /\ vm.result = "TABLE"
    /\ vm.globals.capacity = 16
    /\ Cardinality(Found(vm, vm.globals)) = 7
    /\ tableGet(vm.objects, vm.globals, 1).found

\* what does hold of a resize: the keys present before are present after
\* it, each with the value nil, and the key that is set has the value set
ResizeKeepsKeys ==
    vm.result = "TABLE" =>
        \A key \in 1..Len(vm.objects), value \in TableValues :
           LET after == AfterSet(key, value)
           IN  after.capacity > vm.globals.capacity =>
                  /\ Found(vm, after) = Found(vm, vm.globals) \cup {key}
                  /\ tableGet(vm.objects, after, key).value = value
                  /\ \A k \in Found(vm, vm.globals) \ {key} :
                        tableGet(vm.objects, after, k).value = NIL_VAL

\* the slots of this table that hold a key, and those that hold a tombstone
Live(table) == {e \in 1..table.capacity : table.entries[e].key /= 0}

Tombstones(table) ==
    {e \in 1..table.capacity :
        table.entries[e].key = 0 /\ ~IS_NIL(table.entries[e].value)}

\* C25: after any sequence of tableSet and tableDelete calls table.count is
\* the number of slots that hold a key plus the number of tombstone slots
\* (after a resize: the number of keys, the tombstones being dropped)
C25_CountIsLivePlusTombstones ==
    vm.result = "TABLE" =>
        vm.globals.count
            = Cardinality(Live(vm.globals)) + Cardinality(Tombstones(vm.globals))

\* the seventh key was set in a table of six keys: the table was grown to
\* 16 slots, holds seven keys and no tombstone, and its count is 13
C25_Witness ==
    /\ vm.result = "TABLE"
    /\ vm.globals.capacity = 16
    /\ Cardinality(Live(vm.globals)) = 7
    /\ Tombstones(vm.globals) = {}
    /\ vm.globals.count = 13

\* what does hold of count: it is never below the number of occupied
\* slots, it is that number as long as the table has its first array of 8
\* slots, and a call changes it as the claim says when the call does not
\* grow the table
CountCoversOccupied ==
    vm.result = "TABLE" =>
        /\ vm.globals.count
               >= Cardinality(Live(vm.globals)) + Cardinality(Tombstones(vm.globals))
        /\ vm.globals.capacity <= 8 =>
               vm.globals.count
                   = Cardinality(Live(vm.globals)) + Cardinality(Tombstones(vm.globals))
        /\ \A key \in 1..Len(vm.objects) :
              /\ AfterDelete(key).count = vm.globals.count
              /\ \A value \in TableValues :
                    LET after == AfterSet(key, value)
                        e == findEntry(vm.objects, after.entries, after.capacity, key)
                    IN  after.capacity = vm.globals.capacity =>
                           after.count = vm.globals.count
                               + (IF e \in Live(vm.globals) \cup Tombstones(vm.globals)
                                  THEN 0 ELSE 1)

\* C26: the capacity is zero or a power of two; the slots that hold a key
\* or a tombstone are at most three quarters of the capacity, so that the
\* array has an empty slot; the probe of findEntry ends for every key, and
\* tableFindString finds every key that is present by its bytes
C26_LoadAtMostThreeQuarters ==
    vm.result = "TABLE" =>
        LET table == vm.globals
            occupied == Cardinality(Live(table)) + Cardinality(Tombstones(table))
        IN  /\ table.capacity \in {0} \cup {2 ^ n : n \in 0..30}
            /\ Len(table.entries) = table.capacity
            /\ 4 * occupied <= 3 * table.capacity
            /\ table.capacity > 0 =>
                  /\ \E e \in 1..table.capacity : table.entries[e] = EmptyEntry
                  /\ \A k \in 1..Len(vm.objects) :
                        /\ findEntry(vm.objects, table.entries, table.capacity, k) /= 0
                        /\ k \in Found(vm, table) =>
                              tableFindString(vm.objects, table, vm.objects[k].chars,
                                              vm.objects[k].hash) = k

\* six slots of the first array of 8 are occupied, one of them by a
\* tombstone: the table is at its load limit
C26_Witness ==
    /\ vm.result = "TABLE"
    /\ vm.globals.capacity = 8
    /\ Cardinality(Live(vm.globals)) = 5
    /\ Cardinality(Tombstones(vm.globals)) = 1
    /\ vm.globals.count = 6

\* C27: a tableDelete that finds its key leaves a tombstone (key NULL,
\* value true) in the key's slot and nothing else changed; tableGet then
\* fails for the key and finds every other key that it found before, with
\* the same value; a tableSet of an absent key whose probe meets the
\* tombstone before an empty slot stores the key in the tombstone's slot
\* and leaves count as it is
C27_DeleteLeavesTombstone ==
    vm.result = "TABLE" =>
        LET before == vm.globals
            found == Found(vm, before)
        IN  \A key \in 1..Len(vm.objects) :
               LET deleted == tableDelete(vm.objects, before, key)
                   after == deleted.table
                   slot == findEntry(vm.objects, before.entries, before.capacity, key)
               IN  /\ deleted.ret <=> key \in found
                   /\ ~deleted.ret => after = before
                   /\ deleted.ret =>
                         /\ after = [before EXCEPT !.entries[slot] =
                                        [key |-> 0, value |-> BOOL_VAL(TRUE)]]
                         /\ Found(vm, after) = found \ {key}
                         /\ \A k \in found \ {key} :
                               tableGet(vm.objects, after, k)
                                   = tableGet(vm.objects, before, k)
                         /\ \A k \in (1..Len(vm.objects)) \ (found \ {key}) :
                               findEntry(vm.objects, after.entries, after.capacity, k) = slot =>
                                  \A value \in TableValues :
                                     LET reused == tableSet(vm.objects, after, k, value).table
                                     IN  reused.capacity = after.capacity =>
                                            reused = [after EXCEPT !.entries[slot] =
                                                         [key |-> k, value |-> value]]

\* a, i and q were set, in this order, and then i was deleted: the slots
\* of bucket 4 hold a, a tombstone and q, and q is still found
C27_Witness ==
    /\ vm.result = "TABLE"
    /\ vm.globals.capacity = 8
    /\ vm.globals.entries[5].key = 1
    /\ vm.globals.entries[6] = [key |-> 0, value |-> BOOL_VAL(TRUE)]
    /\ vm.globals.entries[7].key = 3
    /\ ~tableGet(vm.objects, vm.globals, 2).found
    /\ tableGet(vm.objects, vm.globals, 3).found


(***************************************************************************)
(* Properties of the allocator and the collector (kevlox/memory.c)         *)
(***************************************************************************)
\* C28: the buffer of the gray worklist is released only at shutdown:
\* freeing an object in sweep never frees vm.grayStack, so the buffer is
\* never a released one while the program runs, a later collection's
\* markObject never writes into a released buffer, and no free of the buffer
\* is a second one (which the C library may detect and abort)
C28_GrayStackReleasedOnlyAtShutdown ==
    /\ vm.grayBuffer /= "released"
    /\ vm.result /= "ABORTED"

\* a collection has freed an object in sweep, the program runs on, and a
\* second collection has marked its roots
C28_Witness ==
    /\ vm.result = "RUNNING"
    /\ vm.collections = 2
    /\ vm.freed /= {}
    /\ vm.grayCount = 0
    /\ vm.grayCapacity > 0

\* the objects of the vm.objects list
ObjectsList(m) == {o \in 1..Len(m.objects) : o \notin m.freed \cup m.lost}

takeString(m, chars) ==
    LET hash == hashString(chars)
        interned == tableFindString(m.objects, m.strings, chars, hash)
        created == Len(m.objects) + 1
    IN  IF interned /= 0
        THEN [m |-> reallocate(m, [part |-> "chars", of |-> created],
                               SizeOf.char * (Len(chars) + 1), 0),
              ret |-> interned]
        ELSE With([m1 \in {allocateObject(m, SizeOf.ObjString,
                                          [type |-> "OBJ_STRING", chars |-> chars,
                                           hash |-> hash])} |->
               With([set \in {tableSetIn(push(m1, OBJ_VAL(created)), "strings", created,
                                         NIL_VAL)} |->
                 [m |-> pop(set.m), ret |-> created]])])

\* concatenate (ADD on two strings): the operands stay on the stack until
\* the result is allocated
concatenate(m) ==
    LET b == AS_OBJ(peek(m, 0))
        a == AS_OBJ(peek(m, 1))
        chars == m.objects[a].chars \o m.objects[b].chars
    IN  With([m1 \in {reallocate(m, [part |-> "chars", of |-> Len(m.objects) + 1], 0,
                                 SizeOf.char * (Len(chars) + 1))} |->
          With([result \in {takeString(m1, chars)} |->
            push(pop(pop(result.m)), OBJ_VAL(result.ret))])])

\* freeObjects: the walk of the vm.objects list from object on
RECURSIVE freeObjects(_, _)
freeObjects(m, object) ==
    IF object = 0 \/ m.result = "ABORTED" THEN m
    ELSE LET older == {o \in ObjectsList(m) : o < object}
         IN  freeObjects(freeObject(m, object), IF older = {} THEN 0 ELSE Max(older))

HeapPrograms == {<< Len(Fragments) >>}
Thresholds == {0, 1024 * 1024}

InitHeap ==
    /\ source \in HeapPrograms
    /\ \E stress \in BOOLEAN, nextGC \in Thresholds :
          \E r \in {interpret(initVM, SourceTokens(source, 1))} :
             /\ vm = [r.vm EXCEPT !.result = "HEAP", !.stress = stress,
                                  !.nextGC = nextGC]
             /\ parser = r.parser
             /\ compiled = r.compiled
    /\ steps = 0
    /\ jump = NoJump

\* OP_CONSTANT of a string
HeapConstant ==
    /\ vm.result = "HEAP"
    /\ vm.stackTop < MaxStack
    /\ \E k \in 1..Len(frameChunk(vm).constants) :
          /\ IsString(vm, frameChunk(vm).constants[k])
          /\ vm' = push(vm, frameChunk(vm).constants[k])
    /\ UNCHANGED << source, parser, compiled, steps, jump >>

\* ADD of two strings
HeapAdd ==
    /\ vm.result = "HEAP"
    /\ steps < MaxAdds
    /\ vm.stackTop >= 3
    /\ IsString(vm, peek(vm, 0))
    /\ IsString(vm, peek(vm, 1))
    /\ Len(vm.objects[AS_OBJ(peek(vm, 0))].chars)
       + Len(vm.objects[AS_OBJ(peek(vm, 1))].chars) <= MaxChars
    /\ \E hazard \in Hazards(vm) :
          vm' = concatenate([vm EXCEPT !.hazard = hazard])
    /\ steps' = steps + 1
    /\ UNCHANGED << source, parser, compiled, jump >>

\* OP_POP; slot 0 holds the script's closure
HeapPop ==
    /\ vm.result = "HEAP"
    /\ vm.stackTop > 1
    /\ vm' = pop(vm)
    /\ UNCHANGED << source, parser, compiled, steps, jump >>

\* freeVM: freeObjects
HeapFreeObjects ==
    /\ vm.result = "HEAP"
    /\ vm' = [freeObjects(vm, IF ObjectsList(vm) = {} THEN 0 ELSE Max(ObjectsList(vm)))
              EXCEPT !.result = IF @ = "ABORTED" THEN @ ELSE "FREED"]
    /\ UNCHANGED << source, parser, compiled, steps, jump >>

HeapNext == HeapConstant \/ HeapAdd \/ HeapPop \/ HeapFreeObjects

SpecHeap == InitHeap /\ [][HeapNext]_vars

\* C21: in every state vm.bytesAllocated is the sum of the sizes of the
\* blocks that reallocate has handed out and not released (every free and
\* every resize passed the size the block had), and the counter is never
\* below zero
C21_BytesAllocatedIsOutstanding ==
    /\ vm.bytesAllocated = TotalSize(vm.ledger)
    /\ vm.bytesAllocated >= 0

\* strings were built while the intern table grew to 16 and to 32 entries,
\* a collection freed some of them, and freeObjects has released every
\* object that was left: the array of vm.strings is what remains allocated
C21_Witness ==
    /\ vm.result = "FREED"
    /\ vm.collections > 0
    /\ vm.strings.capacity = 32
    /\ \E o \in vm.freed : vm.objects[o].type = "OBJ_FUNCTION"
    /\ \E o \in vm.freed : vm.objects[o].type = "OBJ_CLOSURE"
    /\ \E o \in vm.freed : vm.objects[o].type = "OBJ_STRING" /\ Len(vm.objects[o].chars) = 3
    /\ ObjectsList(vm) = {}
    /\ vm.bytesAllocated = SizeOf.Entry * vm.strings.capacity

\* C29: the collection that ran last was started by a reallocate call that
\* grew a block (newSize > oldSize) and, without the stress flag, at a
\* moment when bytesAllocated, the delta included, was above nextGC; when
\* it returned nextGC was twice bytesAllocated as sweep left it, so that
\* without the stress flag a collection after another one found the heap
\* above twice the size the one before had left
C29_CollectsOnGrowthPastThreshold ==
    (vm.collections > 0 /\ vm.result /= "ABORTED") =>
        /\ vm.cycle.newSize > vm.cycle.oldSize
        /\ ~vm.stress => vm.cycle.bytesAllocated > vm.cycle.nextGC
        /\ vm.nextGC = 2 * vm.cycle.swept
        /\ (~vm.stress /\ vm.collections > 1) =>
               vm.cycle.bytesAllocated > 2 * vm.cycle.before

\* without the stress flag a second collection has run: the first at the
\* first allocation (nextGC was 0), the second when a growth of the intern
\* table took the heap past twice what the first had left; it freed strings
C29_Witness ==
    /\ ~vm.stress
    /\ vm.result = "HEAP"
    /\ vm.collections = 2
    /\ vm.cycle.before > 0
    /\ vm.cycle.nextGC = 2 * vm.cycle.before
    /\ vm.cycle.bytesAllocated > vm.cycle.nextGC
    /\ vm.cycle.swept < vm.cycle.bytesAllocated
    /\ vm.nextGC = 2 * vm.cycle.swept

\* C30: collectGarbage is never called while a call of it has not returned
\* (neither markObject's growth of the gray stack nor the frees of sweep
\* reach it), and no collection is in progress between two instructions
C30_CollectorNotReentered ==
    /\ ~vm.reentered
    /\ vm.collecting => vm.result = "ABORTED"

\* under the stress flag collections have run at growth calls; they grew the
\* gray stack and freed two strings through reallocate
C30_Witness ==
    /\ vm.stress
    /\ vm.result = "HEAP"
    /\ vm.collections > 2
    /\ vm.grayCapacity = 8
    /\ vm.cycle.newSize > 0
    /\ Cardinality({o \in vm.freed : vm.objects[o].type = "OBJ_STRING"}) = 2
    /\ ~vm.collecting

\* the keys of vm.strings
InternKeys(m) ==
    {m.strings.entries[e].key : e \in 1..m.strings.capacity} \ {0}

\* C23: the intern table is a weak reference: once a collection has run,
\* every string that no root led to when the last collection began, whether
\* it was a key of vm.strings or not, has been freed, and no key of
\* vm.strings is a freed object
C23_InternTableIsWeak ==
    (vm.result = "HEAP" /\ vm.collections > 0) =>
        /\ \A o \in vm.cycle.unreached :
              vm.objects[o].type = "OBJ_STRING" => o \in vm.freed
        /\ InternKeys(vm) \cap vm.freed = {}

\* the collection that ran while vm.strings grew to 32 entries freed two
\* strings that were keys of vm.strings and were reachable from nowhere
\* else; the strings of the program and the new string are keys
C23_Witness ==
    /\ vm.result = "HEAP"
    /\ vm.collections > 0
    /\ Cardinality(vm.cycle.unreached) = 2
    /\ \A o \in vm.cycle.unreached : vm.objects[o].type = "OBJ_STRING"
    /\ vm.cycle.unreached \subseteq vm.freed
    /\ vm.strings.capacity = 32
    /\ Cardinality(InternKeys(vm)) = 6

\* the same when the released gray buffer lies under no object during the
\* last collection
InternTableWeakWithoutVictim ==
    (vm.result = "HEAP" /\ vm.collections > 0 /\ vm.hazard.victim = 0) =>
        /\ \A o \in vm.cycle.unreached :
              vm.objects[o].type = "OBJ_STRING" => o \in vm.freed
        /\ InternKeys(vm) \cap vm.freed = {}

(***************************************************************************)
(* Properties of sweep and of the mark phase (kevlox/memory.c)             *)
(***************************************************************************)
\* what sweep is to leave of the list it was given: the objects that were
\* marked are on the list, in the list's order (none unlinked unfreed), not
\* freed and with the mark bit clear; the others are off the list, freed,
\* and no block of theirs is still held (the blocks of the two tables are
\* not blocks of objects)
SweptExactly(m) ==
    LET survivors == m.cycle.listed \ m.cycle.white
    IN  /\ ObjectsList(m) \cap m.cycle.listed = survivors
        /\ survivors \cap (m.freed \cup m.lost \cup m.marked) = {}
        /\ m.cycle.white \subseteq m.freed
        /\ \A b \in m.ledger :
              b.part \notin {"strings", "globals"} => b.of \notin m.cycle.white

\* C31: sweep removes from vm.objects exactly the objects whose mark bit is
\* clear and frees each of them once, keeps the survivors linked in their
\* order and clears their mark bits, and returns: no sweep ends the process
C31_SweepRemovesExactlyUnmarked ==
    vm.collections > 0 => vm.result /= "ABORTED" /\ SweptExactly(vm)

\* a second collection has returned whose sweep was given marked and
\* unmarked objects, after the first collection's sweep had freed objects
C31_Witness ==
    /\ vm.result = "RUNNING"
    /\ vm.collections = 2
    /\ vm.cycle.white /= {}
    /\ vm.cycle.listed \ vm.cycle.white /= {}
    /\ vm.freed \ vm.cycle.white /= {}

\* when no object lies over the released gray buffer, every sweep that
\* returns has done what C31 says
SweepExactWithoutVictim ==
    (vm.collections > 0 /\ vm.result /= "ABORTED" /\ vm.hazard.victim = 0)
        => SweptExactly(vm)

(***************************************************************************)
(* Properties of the control flow the compiler emits (clox/compiler.c)     *)
(***************************************************************************)
\* the code of every and/or compiled: behind the left operand an
\* OP_JUMP_IF_FALSE; for and_ it goes to the end and is followed by OP_POP
\* and the right operand; for or_ it goes to the OP_POP in front of the
\* right operand and is followed by an OP_JUMP to the end
LogicLayout ==
    \A k \in 1..Len(compiled.logic) :
        LET E == compiled.logic[k]
            code == vm.objects[E.function].chunk.code
            At(offset) == code[offset + 1]
        IN  /\ At(E.jump - 1) = OP_JUMP_IF_FALSE
            /\ At(E.right - 1) = OP_POP
            /\ E.right < E.end
            /\ IF E.kind = "and"
               THEN /\ E.jump + 2 + OperandAt(code, E.jump) = E.end
                    /\ E.right = E.jump + 3
               ELSE /\ E.jump + 2 + OperandAt(code, E.jump) = E.right - 1
                    /\ E.skip = E.jump + 3
                    /\ At(E.skip - 1) = OP_JUMP
                    /\ E.skip + 2 + OperandAt(code, E.skip) = E.end
                    /\ E.right = E.skip + 3

\* A step of run() in the code of an and/or E of the running function.  The
\* left operand is on top of the stack at the OP_JUMP_IF_FALSE.  When it
\* decides (falsey for and, truthy for or) the next instruction is the one
\* at the end, with the stack as it was: the left operand is the result and
\* no byte of the right operand is executed.  Otherwise the OP_POP removes
\* the left operand and the right operand's code follows.
LogicStep ==
    (vm.result = "RUNNING" /\ vm'.result = "RUNNING" /\ Len(vm'.frames) = Len(vm.frames)) =>
        \A k \in 1..Len(compiled.logic) :
            LET E == compiled.logic[k]
                ip == frame(vm).ip
                next == frame(vm').ip
                left == peek(vm, 0)
                same == /\ vm'.stackTop = vm.stackTop
                        /\ SubSeq(vm'.stack, 1, vm.stackTop) = SubSeq(vm.stack, 1, vm.stackTop)
            IN  E.function = vm.objects[frame(vm).closure].function =>
                  /\ (ip = E.jump - 1 /\ E.kind = "and") =>
                        /\ same
                        /\ next = IF isFalsey(left) THEN E.end ELSE E.right - 1
                  /\ (ip = E.jump - 1 /\ E.kind = "or") =>
                        /\ same
                        /\ next = IF isFalsey(left) THEN E.right - 1 ELSE E.skip - 1
                  /\ (E.kind = "or" /\ ip = E.skip - 1) =>
                        /\ same
                        /\ ~isFalsey(left)
                        /\ next = E.end
                  /\ ip = E.right - 1 =>
                        /\ vm'.stackTop = vm.stackTop - 1
                        /\ next = E.right
                  \* the right operand is entered through its OP_POP only
                  /\ (next >= E.right /\ next < E.end) => (ip >= E.right - 1 /\ ip < E.end)

\* In the two example programs run after  var a = 1;  the statement
\* print <and/or>;  finds one value above the script's slot when the and/or
\* has ended, whichever way it went, and what was printed tells which
\* operand was the result and whether the assignment in the right operand
\* was executed.
LogicExamples ==
    LET N(k) == NUMBER_VAL(Whole(k))
    IN  /\ (source \in {<< 1, Later(1) >>, << 1, Later(2) >>} /\ vm.result = "RUNNING") =>
              \A k \in 1..Len(compiled.logic) :
                  frame(vm).ip = compiled.logic[k].end => vm.stackTop = 2
        /\ (source = << 1, Later(1) >> /\ vm.result = "INTERPRET_OK") =>
              vm.stdout = << NIL_VAL, N(1), N(1), N(1), N(0), BOOL_VAL(FALSE) >>
        /\ (source = << 1, Later(2) >> /\ vm.result = "INTERPRET_OK") =>
              vm.stdout = << N(2), N(2), N(3), N(3), BOOL_VAL(FALSE), NIL_VAL >>

WhileLayout ==
    \A k \in 1..Len(compiled.whiles) :
        LET W == compiled.whiles[k]
            code == vm.objects[W.function].chunk.code
            At(offset) == code[offset + 1]
        IN  /\ W.loopStart < W.exitJump - 1
            /\ At(W.exitJump - 1) = OP_JUMP_IF_FALSE
            /\ At(W.exitJump + 2) = OP_POP
            /\ W.body = W.exitJump + 3
            /\ At(W.loop) = OP_LOOP
            /\ W.end = W.loop + 3
            /\ W.end - OperandAt(code, W.loop + 1) = W.loopStart
            /\ W.exitJump + 2 + OperandAt(code, W.exitJump) = W.end
            /\ At(W.end) = OP_POP

\* A step of run() in the code of a while statement W of the running
\* function.  OP_LOOP sets ip to loopStart and leaves the stack alone.  The
\* exit jump has the condition on top of the stack and keeps it: a falsey
\* one leads to the OP_POP behind the loop, a truthy one to the OP_POP in
\* front of the body; each OP_POP removes one value.  The body is entered
\* through that OP_POP only, which is reached from the exit jump only, and
\* the exit jump from the condition's code only.
WhileStep ==
    (vm.result = "RUNNING" /\ vm'.result = "RUNNING" /\ Len(vm'.frames) = Len(vm.frames)) =>
        \A k \in 1..Len(compiled.whiles) :
            LET W == compiled.whiles[k]
                ip == frame(vm).ip
                next == frame(vm').ip
                same == /\ vm'.stackTop = vm.stackTop
                        /\ SubSeq(vm'.stack, 1, vm.stackTop) = SubSeq(vm.stack, 1, vm.stackTop)
            IN  W.function = vm.objects[frame(vm).closure].function =>
                  /\ ip = W.loop => same /\ next = W.loopStart
                  /\ ip = W.exitJump - 1 =>
                        /\ same
                        /\ next = IF isFalsey(peek(vm, 0)) THEN W.end ELSE W.body - 1
                  /\ ip \in {W.body - 1, W.end} =>
                        /\ vm'.stackTop = vm.stackTop - 1
                        /\ next = ip + 1
                  /\ (next >= W.body /\ next <= W.loop) => (ip >= W.body - 1 /\ ip < W.loop)
                  /\ next = W.body - 1 => (ip = W.exitJump - 1 /\ ~isFalsey(peek(vm, 0)))
                  /\ next = W.end => (ip = W.exitJump - 1 /\ isFalsey(peek(vm, 0)))
                  /\ next = W.exitJump - 1 => (ip >= W.loopStart /\ ip < W.exitJump - 1)
                  /\ (ip >= W.loopStart /\ ip < W.end) => next <= W.end

\* var a = 1; while (a < 3) { print a; a = a + 1; } print a;  prints 1 and
\* 2 in the loop and 3 after it, and ends with the stack empty
WhileExamples ==
    (source = << 1, Later(3) >> /\ vm.result = "INTERPRET_OK") =>
        /\ vm.stdout = << NUMBER_VAL(Whole(1)), NUMBER_VAL(Whole(2)), NUMBER_VAL(Whole(3)) >>
        /\ vm.stackTop = 0

CaptureStart ==
    initCompiler(initCompiler(initCompiler(CompilerState(<< >>, << >>, initTable),
                                           "TYPE_SCRIPT"),
                              "TYPE_FUNCTION"),
                 "TYPE_FUNCTION")

\* the compiler s after the captures lo..hi
RECURSIVE Captures(_, _, _)
Captures(s, lo, hi) ==
    IF lo > hi THEN s
    ELSE IF lo = hi THEN addUpvalue(s, 3, lo % UINT8_COUNT, lo < UINT8_COUNT)
    ELSE With([s1 \in {Captures(s, lo, (lo + hi) \div 2)} |->
           Captures(s1, (lo + hi) \div 2 + 1, hi)])

\* the compiler after the first n captures
Captured(n) == Captures(CaptureStart, 1, n)

CaptureCounts == {0, 1, 2, UINT8_COUNT - 2, UINT8_COUNT - 1, UINT8_COUNT}
CaptureIndexes == {0, 1, 2, UINT8_MAX}

InitCapture ==
    \/ Init
    \/ /\ source = << >>
       /\ vm = initVM
       /\ parser = [hadError |-> FALSE, panicMode |-> FALSE]
       /\ compiled = [patches |-> << >>, scopes |-> << >>, resolved |-> << >>,
                      events |-> << >>, declared |-> << >>, loops |-> << >>,
                      pool |-> << >>, logic |-> << >>, whiles |-> << >>,
                      closures |-> << >>, statements |-> << >>, calls |-> << >>]
       /\ steps = 0
       /\ \E n \in CaptureCounts :
             jump = [phase |-> "capture", s |-> Captured(n), calls |-> 0,
                     index |-> 0, isLocal |-> FALSE, before |-> << >>]

\* resolveUpvalue calls addUpvalue(compiler, index, isLocal)
Capture ==
    /\ jump.phase = "capture"
    /\ jump.calls < MaxCaptures
    /\ \E index \in CaptureIndexes, isLocal \in BOOLEAN :
          jump' = [jump EXCEPT !.s = addUpvalue(jump.s, 3, index, isLocal),
                               !.calls = @ + 1,
                               !.index = index, !.isLocal = isLocal,
                               !.before = jump.s.comps[3].upvalues]
    /\ UNCHANGED << source, vm, parser, compiled, steps >>

SpecCapture == InitCapture /\ [][Next \/ Capture]_vars

\* the OP_CLOSURE of every function compiled: the opcode, the index of a
\* constant that is the function, then upvalueCount pairs and no more, the
\* pairs of the compiler's upvalues array in its order, no two of them
\* alike.  Each pair is there for a variable that the function's code names
\* (one index per name) or that a function declared inside it captures
\* through it.
ClosureLayout ==
    \A k \in 1..Len(compiled.closures) :
        LET C == compiled.closures[k]
            chunk == vm.objects[C.function].chunk
            At(offset) == chunk.code[offset + 1]
            count == vm.objects[C.fn].upvalueCount
            named == {r \in 1..Len(compiled.resolved) :
                         /\ compiled.resolved[r].function = C.fn
                         /\ compiled.resolved[r].op \in {OP_GET_UPVALUE, OP_SET_UPVALUE}}
            inner == {j \in 1..Len(compiled.closures) : compiled.closures[j].function = C.fn}
        IN  /\ At(C.at) = OP_CLOSURE
            /\ ~parser.hadError => chunk.constants[At(C.at + 1) + 1] = OBJ_VAL(C.fn)
            /\ count <= UINT8_COUNT
            /\ Len(C.upvalues) = count
            /\ C.end = C.at + 2 + 2 * count
            /\ \A i \in 1..count :
                  /\ At(C.at + 2 * i) = IF C.upvalues[i].isLocal THEN 1 ELSE 0
                  /\ At(C.at + 2 * i + 1) = C.upvalues[i].index
                  /\ \A j \in 1..count : C.upvalues[i] = C.upvalues[j] => i = j
                  /\ \/ \E r \in named : compiled.resolved[r].arg = i - 1
                     \/ \E j \in inner :
                           \E u \in 1..Len(compiled.closures[j].upvalues) :
                              compiled.closures[j].upvalues[u] =
                                  [isLocal |-> FALSE, index |-> i - 1]
            /\ \A r1, r2 \in named :
                  (compiled.resolved[r1].name = compiled.resolved[r2].name)
                      <=> (compiled.resolved[r1].arg = compiled.resolved[r2].arg)
            /\ \A r \in named : compiled.resolved[r].arg < count

\* addUpvalue at any count up to the limit: the array holds upvalueCount
\* pairs, at most 256, no two alike; the call returns the index of the pair
\* it was given, which is the index the pair had when it was already
\* there; a new pair at the limit is an error and changes nothing
CaptureBounded ==
    jump.phase = "capture" =>
        LET s == jump.s
            upvalues == s.comps[3].upvalues
            count == s.heap[s.comps[3].function].upvalueCount
            pair == [isLocal |-> jump.isLocal, index |-> jump.index]
            had == {i \in 1..Len(jump.before) : jump.before[i] = pair}
        IN  /\ count <= UINT8_COUNT
            /\ Len(upvalues) = count
            /\ \A i, j \in 1..count : upvalues[i] = upvalues[j] => i = j
            /\ jump.calls > 0 =>
                  IF had /= {}
                  THEN upvalues = jump.before /\ s.ret + 1 \in had
                  ELSE IF Len(jump.before) = UINT8_COUNT
                  THEN upvalues = jump.before /\ s.parser.hadError /\ s.ret = 0
                  ELSE upvalues = Append(jump.before, pair) /\ s.ret = Len(jump.before)

CaptureRefused ==
    /\ jump.phase = "capture"
    /\ jump.calls > 0
    /\ Len(jump.before) = UINT8_COUNT
    /\ jump.s.parser.hadError

(***************************************************************************)
(* Properties of the mark phase (kevlox/memory.c)                          *)
(***************************************************************************)
\* the objects that object o of machine m refers to (what blackenObject
\* marks for it)
References(m, o) ==
    LET Of(value) == IF IS_OBJ(value) /\ AS_OBJ(value) /= 0 THEN {AS_OBJ(value)} ELSE {}
    IN  IF m.objects[o].type = "OBJ_CLOSURE"
        THEN {m.objects[o].function}
             \cup {m.objects[o].upvalues[i] : i \in 1..Len(m.objects[o].upvalues)}
        ELSE IF m.objects[o].type = "OBJ_FUNCTION"
        THEN ({m.objects[o].name} \ {0})
             \cup UNION {Of(m.objects[o].chunk.constants[i]) :
                            i \in 1..Len(m.objects[o].chunk.constants)}
        ELSE IF m.objects[o].type = "OBJ_UPVALUE"
        THEN Of(m.objects[o].closed)
        ELSE {}

\* the machine when markRoots and traceReferences have returned in the
\* collection that this step makes
Traced == traceReferences(markRoots([vm EXCEPT !.hazard = vm'.hazard,
                                               !.cycle.pushed = << >>]))

\* what the mark phase is to leave: the process alive, the gray stack
\* empty, no object pushed twice, and every object a marked object refers
\* to marked
TracedCompletely(m) ==
    /\ m.result /= "ABORTED"
    /\ m.grayCount = 0
    /\ \A i, j \in 1..Len(m.cycle.pushed) :
          m.cycle.pushed[i] = m.cycle.pushed[j] => i = j
    /\ \A o \in m.marked : References(m, o) \subseteq m.marked

\* a step that collects
Collects == vm'.collections = vm.collections + 1

\* C35: markRoots followed by traceReferences ends on every object graph,
\* cycles included, with each object marked and pushed at most once in the
\* collection, the gray stack empty and no marked object referring to an
\* unmarked one
C35_TraceTerminatesAndCloses ==
    [][Collects => TracedCompletely(Traced)]_vars

\* a collection has traced a cycle: an upvalue that is marked holds a
\* closure that refers to this upvalue
C35_Witness ==
    /\ vm.collections > 0
    /\ vm.result = "RUNNING"
    /\ \E u \in vm.cycle.listed \ vm.cycle.white :
          /\ vm.objects[u].type = "OBJ_UPVALUE"
          /\ \E c \in References(vm, u) : u \in References(vm, c)

\* when no object lies over the released gray buffer and the C library
\* lets the frees of the released buffer pass, every mark phase does what
\* C35 says
TraceCompleteWithoutVictim ==
    [][(Collects /\ vm'.hazard.victim = 0 /\ ~vm'.hazard.detect)
          => TracedCompletely(Traced)]_vars

(***************************************************************************)
(* Statements and the height of the stack                                  *)
(***************************************************************************)
\* run() has arrived: frame number depth is at one of the offsets stops, or
\* has returned, or the run is over
Arrived(m, depth, stops) ==
    \/ m.result /= "RUNNING"
    \/ Len(m.frames) < depth
    \/ (Len(m.frames) = depth /\ frame(m).ip \in stops)

\* the machine after run() has gone on from m until it has arrived, for at
\* most n instructions (taken as two halves)
RECURSIVE RunUntil(_, _, _, _)
RunUntil(m, depth, stops, n) ==
    IF Arrived(m, depth, stops) \/ n = 0 THEN m
    ELSE IF n = 1 THEN runStep(m)
    ELSE With([m1 \in {RunUntil(m, depth, stops, n \div 2)} |->
           RunUntil(m1, depth, stops, n - n \div 2)])

\* frame number depth of m is at offset ip of its function
At(m, depth, ip) ==
    m.result = "RUNNING" /\ Len(m.frames) = depth /\ frame(m).ip = ip

\* the statements of the running function that begin at the instruction
\* about to be executed and have code
Beginning ==
    {k \in 1..Len(compiled.statements) :
        /\ vm.result = "RUNNING"
        /\ compiled.statements[k].function = vm.objects[frame(vm).closure].function
        /\ compiled.statements[k].start = frame(vm).ip
        /\ compiled.statements[k].start < compiled.statements[k].end}

\* the machine when the statement that begins here has been executed
Executed(st) == RunUntil(vm, Len(vm.frames), {st.end}, MaxSteps)

\* a statement that is not a local variable declaration and is executed to
\* its end leaves the stack as high as it found it
StatementKeepsHeight ==
    \A k \in Beginning :
        LET st == compiled.statements[k]
        IN  (~st.local /\ At(Executed(st), Len(vm.frames), st.end))
                => Executed(st).stackTop = vm.stackTop

\* the bodies of the loops of the running function: where the body begins
\* and where the loop is left
LoopBodies ==
    {<< compiled.whiles[k].function, compiled.whiles[k].body, compiled.whiles[k].end >> :
        k \in 1..Len(compiled.whiles)}
    \cup {<< compiled.loops[k].function, compiled.loops[k].body, compiled.loops[k].end >> :
            k \in 1..Len(compiled.loops)}

\* the machine at the start of the next iteration of the loop whose body
\* begins here, or where the loop has been left
NextIteration(body) ==
    RunUntil(runStep(vm), Len(vm.frames), {body[2], body[3]}, MaxSteps)

\* the stack is as high at the start of the next iteration of a loop as at
\* the start of this one
LoopBodyKeepsHeight ==
    \A body \in LoopBodies :
        (/\ vm.result = "RUNNING"
         /\ body[1] = vm.objects[frame(vm).closure].function
         /\ body[2] = frame(vm).ip
         /\ At(NextIteration(body), Len(vm.frames), body[2]))
            => NextIteration(body).stackTop = vm.stackTop

\* C36: every statement other than a local variable declaration leaves the
\* operand stack as high as it found it, and the stack is as high at the
\* start of the body of a while or for loop on every iteration, also when
\* the body is a block that declares locals
C36_StatementsKeepStackHeight == StatementKeepsHeight /\ LoopBodyKeepsHeight

\* var a = 1; while (a < 3) { var x = a; a = a + 1; print x; } print a;
\* is at the start of the body of its loop for the second time
C36_Witness ==
    /\ source = << 1, Later(6) >>
    /\ vm.result = "RUNNING"
    /\ \E k \in 1..Len(compiled.whiles) : frame(vm).ip = compiled.whiles[k].body
    /\ Len(vm.stdout) = 1

\* a statement whose compilation left the locals array as long as it found
\* it leaves the stack as high as it found it
HeightKeptWhereLocalsRemoved ==
    \A k \in Beginning :
        LET st == compiled.statements[k]
        IN  (st.left = st.locals /\ At(Executed(st), Len(vm.frames), st.end))
                => Executed(st).stackTop = vm.stackTop

(***************************************************************************)
(* The locals array and the stack                                          *)
(***************************************************************************)
\* the number of values on the stack of the running frame
Height(m) == m.stackTop - frame(m).slots

\* where a statement begins the frame holds as many values as the locals
\* array held entries when the statement was compiled: local number k of
\* the compiler is slot k of the frame
InStep ==
    \A k \in Beginning : Height(vm) = compiled.statements[k].locals

\* the declaration of a local variable has left its value in the slot whose
\* number is the index addLocal gave the variable
DeclaredInItsSlot ==
    \A k \in Beginning :
        LET st == compiled.statements[k]
        IN  (st.local /\ At(Executed(st), Len(vm.frames), st.end))
                => /\ st.left = st.locals + 1
                   /\ Height(Executed(st)) = st.locals + 1

\* the slot of an OP_GET_LOCAL or OP_SET_LOCAL about to be executed is one
\* of the values on the stack of the frame
LocalSlotOnStack ==
    (vm.result = "RUNNING" /\ NextInstruction \in {OP_GET_LOCAL, OP_SET_LOCAL})
        => byteAt(vm, 1) < Height(vm)

\* var a = 1; while (a < 3) { var x = a; a = a + 1; print x; } print a;
\* prints the x of each iteration, and
\* for (var i = 0; i < 2; i = i + 1) { var x = i; print x; }  as well
LocalExamples ==
    /\ (source = << 1, Later(6) >> /\ vm.result = "INTERPRET_OK")
          => vm.stdout = << NUMBER_VAL(Whole(1)), NUMBER_VAL(Whole(2)),
                            NUMBER_VAL(Whole(3)) >>
    /\ (source = << Later(7) >> /\ vm.result = "INTERPRET_OK")
          => vm.stdout = << NUMBER_VAL(Whole(0)), NUMBER_VAL(Whole(1)) >>

\* C37: when OP_GET_LOCAL or OP_SET_LOCAL with operand k executes, slot k of
\* the current frame holds the value of the variable that the compiler
\* resolved to local k: the locals array and the stack stay in step across
\* declarations, block exits and loop iterations
C37_LocalsInStepWithStack ==
    InStep /\ DeclaredInItsSlot /\ LocalSlotOnStack /\ LocalExamples

\* var a = 1; while (a < 3) { var x = a; a = a + 1; print x; } print a;
\* is about to read x in the second iteration of its loop
C37_Witness ==
    /\ source = << 1, Later(6) >>
    /\ vm.result = "RUNNING"
    /\ NextInstruction = OP_GET_LOCAL
    /\ byteAt(vm, 2) = OP_PRINT
    /\ Len(vm.stdout) = 1

\* in a function without loops the locals array and the stack are in step
\* where a statement begins, and a declared local lies in its slot
InStepWithoutLoops ==
    \A k \in Beginning :
        LET st == compiled.statements[k]
        IN  (\A body \in LoopBodies : body[1] /= st.function)
                => /\ Height(vm) = st.locals
                   /\ (st.local /\ At(Executed(st), Len(vm.frames), st.end))
                         => Height(Executed(st)) = st.locals + 1

(***************************************************************************)
(* Termination of compile                                                  *)
(***************************************************************************)
\* the entries of kind kind in the log of the compiler
Logged(kind) ==
    {k \in 1..Len(compiled.statements) : compiled.statements[k].kind = kind}

\* declaration is never called at TOKEN_EOF, and every call has made
\* scanToken yield at least one token more
DeclarationConsumes ==
    \A k \in Logged("declaration") \cup Logged("statement") :
        /\ compiled.statements[k].first /= "TOKEN_EOF"
        /\ compiled.statements[k].scans >= 1

\* the loop of block has stopped at } or at the end of the source
BlockStops ==
    \A k \in Logged("block") :
        compiled.statements[k].current \in {"TOKEN_RIGHT_BRACE", "TOKEN_EOF"}

\* synchronize has stopped behind a ; or in front of a keyword that begins
\* a statement, or at the end of the source
SynchronizeStopsAtBoundary ==
    \A i \in 1..Len(compiled.events) :
        compiled.events[i].kind = "synchronize"
            => SynchronizeStops(compiled.events[i].previous, compiled.events[i].current)

\* the loop of compile has come to TOKEN_EOF within one declaration per
\* token, and the scanner was asked for no more than the tokens of the
\* source and one TOKEN_EOF for each call that could ask at the end
CompileLoopEnds ==
    /\ vm.result /= "NONE" => Cardinality(Logged("compile")) = 1
    /\ \A k \in Logged("compile") :
          /\ compiled.statements[k].current = "TOKEN_EOF"
          /\ Cardinality(Logged("declaration")) <= Len(SourceTokens(source, 1))

\* C38: compile terminates on every token stream, with or without syntax
\* errors: every call of declaration made while the current token is not
\* TOKEN_EOF consumes at least one token, block stops at } or TOKEN_EOF, and
\* synchronize stops at a statement boundary or TOKEN_EOF
C38_CompileTerminates ==
    DeclarationConsumes /\ BlockStops /\ SynchronizeStopsAtBoundary /\ CompileLoopEnds

\* print 1; ) print 2; { print 3; ) print 5;   has been compiled: a
\* declaration began at a ) behind a ; and consumed it, synchronize stopped
\* in front of print, and a block stopped at the end of the source
C38_Witness ==
    /\ source = << Later(8) >>
    /\ vm.result = "INTERPRET_COMPILE_ERROR"
    /\ \E k \in Logged("declaration") :
          /\ compiled.statements[k].first = "TOKEN_RIGHT_PAREN"
          /\ compiled.statements[k].current = "TOKEN_PRINT"
    /\ \E k \in Logged("block") : compiled.statements[k].current = "TOKEN_EOF"
    /\ \E i \in 1..Len(compiled.events) :
          /\ compiled.events[i].kind = "synchronize"
          /\ compiled.events[i].previous = "TOKEN_RIGHT_PAREN"

(***************************************************************************)
(* The rules that parsePrecedence calls                                    *)
(***************************************************************************)
\* the token kinds of the table of rules
TokenTypes ==
    {"TOKEN_LEFT_PAREN", "TOKEN_RIGHT_PAREN", "TOKEN_LEFT_BRACE", "TOKEN_RIGHT_BRACE",
     "TOKEN_COMMA", "TOKEN_DOT", "TOKEN_MINUS", "TOKEN_PLUS", "TOKEN_SEMICOLON",
     "TOKEN_SLASH", "TOKEN_STAR", "TOKEN_BANG", "TOKEN_BANG_EQUAL", "TOKEN_EQUAL",
     "TOKEN_EQUAL_EQUAL", "TOKEN_GREATER", "TOKEN_GREATER_EQUAL", "TOKEN_LESS",
     "TOKEN_LESS_EQUAL", "TOKEN_IDENTIFIER", "TOKEN_STRING", "TOKEN_NUMBER",
     "TOKEN_AND", "TOKEN_CLASS", "TOKEN_ELSE", "TOKEN_FALSE", "TOKEN_FOR", "TOKEN_FUN",
     "TOKEN_IF", "TOKEN_NIL", "TOKEN_OR", "TOKEN_PRINT", "TOKEN_RETURN", "TOKEN_SUPER",
     "TOKEN_THIS", "TOKEN_TRUE", "TOKEN_VAR", "TOKEN_WHILE", "TOKEN_ERROR", "TOKEN_EOF"}

\* every rule with a precedence that the loop of parsePrecedence accepts has
\* an infix function
RulesHaveInfix ==
    \A type \in TokenTypes :
        getRule(type).precedence >= PREC_ASSIGNMENT => getRule(type).infix /= "NULL"

\* parsePrecedence is called with PREC_ASSIGNMENT or more; no function that
\* it called was NULL; where the prefix function was NULL it called none
\* and reported an error instead
HandlersNotNull ==
    \A i \in 1..Len(compiled.calls) :
        LET c == compiled.calls[i]
        IN  /\ c.precedence >= PREC_ASSIGNMENT
            /\ c.called => c.fn /= "NULL"
            /\ c.fn = getRule(c.token)[c.kind]
            /\ c.kind = "infix" => getRule(c.token).precedence >= c.precedence
            /\ (c.kind = "prefix" /\ c.fn = "NULL")
                  => /\ ~c.called
                     /\ Len(compiled.events) > c.errors
                     /\ compiled.events[c.errors + 1].kind = "errorAt"

\* C39: the infix function that parsePrecedence calls is never NULL: every
\* token kind whose rule has a precedence of PREC_ASSIGNMENT or more has an
\* infix function in the table, and the prefix function is tested for NULL,
\* with an error reported, before it is called
C39_InfixHandlerNeverNull == RulesHaveInfix /\ HandlersNotNull

\* a * a = 1; print ;   has been compiled: binary was called for the *, and
\* the ; behind print had no prefix function
C39_Witness ==
    /\ source = << 17 >>
    /\ vm.result = "INTERPRET_COMPILE_ERROR"
    /\ \E i \in 1..Len(compiled.calls) :
          /\ compiled.calls[i].kind = "infix"
          /\ compiled.calls[i].token = "TOKEN_STAR"
          /\ compiled.calls[i].fn = "binary"
    /\ \E i \in 1..Len(compiled.calls) :
          /\ compiled.calls[i].kind = "prefix"
          /\ compiled.calls[i].token = "TOKEN_SEMICOLON"
          /\ ~compiled.calls[i].called
====
